---------------------------- MODULE Spec2Model ----------------------------
(***************************************************************************)
(* Model of the streaming transfer-and-verification engine of migrationdb: *)
(* Manager.Migrate (producer -> pipe -> consumer), DatabaseVerifier        *)
(* (VerifyContent, compareReaders, the per-dialect normalizers).           *)
(*                                                                         *)
(* A byte is a one-character string, a chunk or a stream a sequence of     *)
(* bytes.  An error value is a string tag, "nil" being Go's nil error.     *)
(***************************************************************************)
EXTENDS Integers, Sequences, FiniteSets, TLC

(***************************************************************************)
(* Bytes and the bytes/strings helpers the normalizers use.                *)
(***************************************************************************)
LF == "\n"

Min(a, b) == IF a <= b THEN a ELSE b

Take(s, n) == SubSeq(s, 1, Min(n, Len(s)))

Drop(s, n) == SubSeq(s, Min(n, Len(s)) + 1, Len(s))

\* bytes.HasPrefix
HasPrefix(s, p) == Len(s) >= Len(p) /\ SubSeq(s, 1, Len(p)) = p

\* bytes.Contains
Contains(s, sub) ==
    \E i \in 0..(Len(s) - Len(sub)) : SubSeq(s, i + 1, i + Len(sub)) = sub

\* unicode.IsSpace on the ASCII range, as bytes.TrimSpace applies it
IsSpace(b) == b \in {" ", "\t", "\r", LF}

\* the class \s of Go's regexp: [\t\n\f\r ]
IsRegexSpace(b) == b \in {" ", "\t", "\r", LF}

RECURSIVE TrimLeft(_)
TrimLeft(s) ==
    IF s # <<>> /\ IsSpace(Head(s)) THEN TrimLeft(Tail(s)) ELSE s

RECURSIVE TrimRight(_)
TrimRight(s) ==
    IF s # <<>> /\ IsSpace(s[Len(s)])
        THEN TrimRight(SubSeq(s, 1, Len(s) - 1))
        ELSE s

\* bytes.TrimSpace
TrimSpace(s) == TrimRight(TrimLeft(s))

\* bytes.Split(chunk, "\n"): the lines, without their separators; a chunk
\* with n separators has n + 1 lines, the empty chunk one empty line
RECURSIVE SplitLines(_, _, _)
SplitLines(s, cur, acc) ==
    IF s = <<>> THEN Append(acc, cur)
    ELSE IF Head(s) = LF THEN SplitLines(Tail(s), <<>>, Append(acc, cur))
    ELSE SplitLines(Tail(s), Append(cur, Head(s)), acc)

Split(chunk) == SplitLines(chunk, <<>>, <<>>)

\* bytes.Join(lines, "\n")
RECURSIVE Join(_)
Join(lines) ==
    IF lines = <<>> THEN <<>>
    ELSE IF Len(lines) = 1 THEN lines[1]
    ELSE lines[1] \o <<LF>> \o Join(Tail(lines))

(***************************************************************************)
(* The markers of the normalizers.                                         *)
(***************************************************************************)
PfxDumpedOn ==
    <<"-", "-", " ", "D", "u", "m", "p", "e", "d", " ", "o", "n">>
PfxDumpedBy ==
    <<"-", "-", " ", "D", "u", "m", "p", "e", "d", " ", "b", "y">>
PfxStartedOn ==
    <<"-", "-", " ", "S", "t", "a", "r", "t", "e", "d", " ", "o", "n">>
PfxCompletedOn ==
    <<"-", "-", " ", "C", "o", "m", "p", "l", "e", "t", "e", "d", " ", "o", "n">>
PfxPgDatabaseDump ==
    <<"-", "-", " ", "P", "o", "s", "t", "g", "r", "e", "S", "Q", "L", " ",
      "d", "a", "t", "a", "b", "a", "s", "e", " ", "d", "u", "m", "p">>
PfxPgDumpVersion ==
    <<"-", "-", " ", "p", "g", "_", "d", "u", "m", "p", " ",
      "v", "e", "r", "s", "i", "o", "n">>
PfxServerVersion ==
    <<"-", "-", " ", "S", "e", "r", "v", "e", "r", " ",
      "v", "e", "r", "s", "i", "o", "n">>
PfxDump ==
    <<"-", "-", " ", "D", "u", "m", "p">>
PfxDumped ==
    <<"-", "-", " ", "D", "u", "m", "p", "e", "d">>
PfxMyDumpCompletedOn ==
    <<"-", "-", " ", "D", "u", "m", "p", " ", "c", "o", "m", "p", "l", "e",
      "t", "e", "d", " ", "o", "n">>
PfxMySQLDump ==
    <<"-", "-", " ", "M", "y", "S", "Q", "L", " ", "d", "u", "m", "p">>
SubTimestamp ==
    <<"\"", "$", "t", "i", "m", "e", "s", "t", "a", "m", "p", "\"">>
SubDate ==
    <<"\"", "$", "d", "a", "t", "e", "\"">>
EmptyComment ==
    <<"-", "-">>
Keywords ==
    {<<"o", "n">>, <<"a", "t">>, <<"b", "y">>}

(***************************************************************************)
(* The normalizers.                                                        *)
(***************************************************************************)
\* timestampRegex: ^\-\- Dump(ed)?\s+(on|at|by)\s+.+
timestampRegex(line) ==
    \E p \in {PfxDump, PfxDumped} :
        /\ HasPrefix(line, p)
        /\ LET r == Drop(line, Len(p))
           IN  \E k \in 1..Len(r) :
                 /\ \A i \in 1..k : IsRegexSpace(r[i])
                 /\ \E kw \in Keywords :
                      /\ HasPrefix(Drop(r, k), kw)
                      /\ LET t == Drop(r, k + Len(kw))
                         IN  Len(t) >= 2 /\ IsRegexSpace(t[1])

\* the prefix tests and the regular expressions of normalizePostgresDump;
\* each of the other five expressions is ^<prefix>.* for a prefix also
\* tested with bytes.HasPrefix
PostgresSkipLine(line) ==
    \/ HasPrefix(line, PfxDumpedOn)
    \/ HasPrefix(line, PfxDumpedBy)
    \/ HasPrefix(line, PfxStartedOn)
    \/ HasPrefix(line, PfxCompletedOn)
    \/ HasPrefix(line, PfxPgDatabaseDump)
    \/ HasPrefix(line, PfxPgDumpVersion)
    \/ HasPrefix(line, PfxServerVersion)
    \/ timestampRegex(line)

PostgresKeepLine(line) ==
    /\ ~PostgresSkipLine(line)
    /\ TrimSpace(line) # EmptyComment
    /\ Len(TrimSpace(line)) > 0

RECURSIVE TrimAll(_)
TrimAll(lines) ==
    IF lines = <<>> THEN <<>>
    ELSE <<TrimSpace(Head(lines))>> \o TrimAll(Tail(lines))

normalizePostgresDump(chunk) ==
    Join(TrimAll(SelectSeq(Split(chunk), PostgresKeepLine)))

MySQLKeepLine(line) ==
    ~ \/ HasPrefix(line, PfxMyDumpCompletedOn)
      \/ HasPrefix(line, PfxMySQLDump)
      \/ HasPrefix(line, PfxServerVersion)

normalizeMySQLDump(chunk) ==
    Join(SelectSeq(Split(chunk), MySQLKeepLine))

MongoDBKeepLine(line) ==
    ~ \/ Contains(line, SubTimestamp)
      \/ Contains(line, SubDate)

normalizeMongoDBDump(chunk) ==
    Join(SelectSeq(Split(chunk), MongoDBKeepLine))

Postgres == "postgres"
MySQL == "mysql"
MongoDB == "mongodb"
DatabaseType == {Postgres, MySQL, MongoDB}

\* every case of the switch calling the Postgres normalizer
NormalizeAsPostgres(dbType, chunk) ==
    IF dbType \in {"postgres", "mysql", "mongodb"}
    THEN normalizePostgresDump(chunk)
    ELSE chunk

\* the switch of compareReaders on the dumper's type
Normalize(dbType, chunk) ==
    CASE dbType = Postgres -> normalizePostgresDump(chunk)
      [] dbType = MySQL -> normalizeMySQLDump(chunk)
      [] dbType = MongoDB -> normalizeMongoDBDump(chunk)
      [] OTHER -> chunk

(***************************************************************************)
(* Inputs of the model.                                                    *)
(***************************************************************************)
\* the largest number of bytes one Write call of a dump process carries
MaxWrite == 8

defaultChunkSize == 10 * 1024 * 1024

\* a chunk size far below the length of a dump, and the default
VerifyChunkSizes == {4, defaultChunkSize}

Row1 == <<"r", "1", ";">>
Row2 == <<"r", "2", ";">>

OutA == Row1 \o <<LF>> \o PfxDumpedOn \o <<" ", "A", LF>>
OutB == Row1 \o <<LF>> \o PfxDumpedOn \o <<" ", "B", LF>>
OutBB == Row1 \o <<LF>> \o PfxDumpedOn \o <<" ", "B", "B", LF>>
OutRow2 == Row2 \o <<LF>> \o PfxDumpedOn \o <<" ", "A", LF>>

\* what a dump process may write
Outputs == {OutA, OutB, OutBB, OutRow2, <<>>}

(***************************************************************************)
(* State.                                                                  *)
(***************************************************************************)
VARIABLES
    ctx,      \* the operation's context: "live", "canceled" or "deadline"
    cfg,      \* the inputs of the operation, fixed at its start
    pipe,     \* io.Pipe per pipe: the bytes of the pending Write, wclosed
    dumper,   \* the goroutine around each Dump call
    cmp,      \* the goroutine around compareReaders
    chans,    \* the result channels
    vc,       \* VerifyContent: its locals and its return value
    restorer, \* the goroutine around the Restore call of Migrate
    mig,      \* Migrate: its locals and its return value
    hist,     \* observation: who posted to and how often was read each channel
    norm,     \* a chunk and what the normalizer makes of it
    gc,       \* GetChecksum: its hash, its goroutine and its return value
    run       \* runMigration: its position and its return value

vars ==
    <<ctx, cfg, pipe, dumper, cmp, chans, vc, restorer, mig, hist, norm, gc,
      run>>

Sides == {"source", "target"}

\* sourceDumpErr, targetDumpErr, compareErr
VerifyChans == {"source", "target", "compare"}

\* ctx.Err()
ctxErr == ctx

ctxDone == ctx # "live"

(***************************************************************************)
(* The context fires: the deadline passes or the signal handler cancels.   *)
(***************************************************************************)
CtxFire ==
    /\ ctx = "live"
    /\ ctx' \in {"canceled", "deadline"}
    /\ UNCHANGED <<cfg, pipe, dumper, cmp, chans, vc, restorer, mig, hist, norm, gc, run>>

(***************************************************************************)
(* Channel send and receive, with the observation of both.                 *)
(***************************************************************************)
\* room for one outcome only on every channel
CapOneEach(ch) == 1

\* make(chan error, 2) in Migrate, make(chan error, 1) elsewhere
Cap(ch) == IF ch = "errChan" THEN 2 ELSE 1

Send(ch, who, v) ==
    /\ Len(chans[ch]) < Cap(ch)
    /\ chans' = [chans EXCEPT ![ch] = Append(@, v)]
    /\ hist' = [hist EXCEPT !.posts[ch] = Append(@, [who |-> who, v |-> v])]

Recv(ch) ==
    /\ chans[ch] # <<>>
    /\ chans' = [chans EXCEPT ![ch] = Tail(@)]
    /\ hist' = [hist EXCEPT !.recvs[ch] = @ + 1,
                            !.arrival = Append(@, ch)]

(***************************************************************************)
(* A Dump call: exec.CommandContext(...).Run() with cmd.Stdout = w.  The   *)
(* process's output is copied into the pipe Write by Write; Run returns    *)
(* once the copy has ended, with nil when the process wrote all its output *)
(* and exited 0, with an error when the process failed or was killed.  A   *)
(* Write on an io.Pipe returns when the reader has taken all its bytes.    *)
(***************************************************************************)
DumpWrite(d) ==
    /\ dumper[d].pc = "dump"
    /\ dumper[d].rest # <<>>
    /\ pipe[d].data = <<>>
    /\ pipe' = [pipe EXCEPT ![d].data = Take(dumper[d].rest, MaxWrite)]
    /\ dumper' = [dumper EXCEPT ![d].pc = "write",
                                ![d].rest = Drop(@, MaxWrite)]
    /\ UNCHANGED <<ctx, cfg, cmp, chans, vc, restorer, mig, hist, norm, gc, run>>

\* a pipe with a buffer: the Write returns with its bytes still unread
DumpWriteDoneBuffered(d) ==
    /\ dumper[d].pc = "write"
    /\ dumper' = [dumper EXCEPT ![d].pc = "dump"]
    /\ UNCHANGED <<ctx, cfg, pipe, cmp, chans, vc, restorer, mig, hist, norm, gc, run>>

DumpWriteDone(d) ==
    /\ dumper[d].pc = "write"
    /\ pipe[d].data = <<>>
    /\ dumper' = [dumper EXCEPT ![d].pc = "dump"]
    /\ UNCHANGED <<ctx, cfg, pipe, cmp, chans, vc, restorer, mig, hist, norm, gc, run>>

DumpReturnNil(d) ==
    /\ dumper[d].pc = "dump"
    /\ dumper[d].rest = <<>>
    /\ dumper' = [dumper EXCEPT ![d].pc = "post", ![d].err = "nil"]
    /\ UNCHANGED <<ctx, cfg, pipe, cmp, chans, vc, restorer, mig, hist, norm, gc, run>>

DumpFail(d) ==
    /\ dumper[d].pc = "dump"
    /\ dumper' = [dumper EXCEPT ![d].pc = "post", ![d].err = "dumpErr"]
    /\ UNCHANGED <<ctx, cfg, pipe, cmp, chans, vc, restorer, mig, hist, norm, gc, run>>

(***************************************************************************)
(* VerifyContent's two dump goroutines: post Dump's result, then the       *)
(* deferred Close of the pipe's write end.                                 *)
(***************************************************************************)
VerifyDumpPost(d) ==
    /\ d \in Sides
    /\ dumper[d].pc = "post"
    /\ Send(d, d, dumper[d].err)
    /\ dumper' = [dumper EXCEPT ![d].pc = "close"]
    /\ UNCHANGED <<ctx, cfg, pipe, cmp, vc, restorer, mig, norm, gc, run>>

\* the deferred Close left out
WriterCloseSkipped(d) ==
    /\ dumper[d].pc = "close"
    /\ dumper' = [dumper EXCEPT ![d].pc = "end"]
    /\ UNCHANGED <<ctx, cfg, pipe, cmp, chans, vc, restorer, mig, hist, norm, gc, run>>

WriterClose(d) ==
    /\ dumper[d].pc = "close"
    /\ pipe' = [pipe EXCEPT ![d].wclosed = TRUE]
    /\ dumper' = [dumper EXCEPT ![d].pc = "end"]
    /\ UNCHANGED <<ctx, cfg, cmp, chans, vc, restorer, mig, hist, norm, gc, run>>

(***************************************************************************)
(* compareReaders, run by VerifyContent's third goroutine.                 *)
(***************************************************************************)
\* one Read of io.ReadFull on a reader: it takes what fits of the pending
\* bytes; with nothing pending it blocks, or reports the end of the stream
\* (io.EOF or io.ErrUnexpectedEOF) once the write end is closed; a Read of a
\* faulty reader may fail, and io.ReadFull returns that error with the bytes
\* read so far
ReadInto(side, buf, err, next) ==
    \/ /\ pipe[side].data # <<>>
       /\ LET k == Min(cfg.chunkSize - Len(cmp[buf]), Len(pipe[side].data))
              got == cmp[buf] \o Take(pipe[side].data, k)
          IN  /\ pipe' = [pipe EXCEPT ![side].data = Drop(@, k)]
              /\ cmp' = [cmp EXCEPT ![buf] = got,
                                    !.pc = IF Len(got) = cfg.chunkSize
                                           THEN next ELSE @]
    \/ /\ pipe[side].data = <<>>
       /\ pipe[side].wclosed
       /\ cmp' = [cmp EXCEPT ![err] = "EOF", !.pc = next]
       /\ UNCHANGED pipe
    \/ /\ pipe[side].fault
       /\ cmp' = [cmp EXCEPT ![err] = "readErr", !.pc = next]
       /\ UNCHANGED pipe

\* no select: the context is not looked at
CmpSelectNoCtx ==
    /\ cmp.pc = "select"
    /\ cmp' = [cmp EXCEPT !.pc = "readSource",
                          !.sourceChunk = <<>>, !.targetChunk = <<>>,
                          !.sourceErr = "nil", !.targetErr = "nil"]
    /\ UNCHANGED <<ctx, cfg, pipe, dumper, chans, vc, restorer, mig, hist, norm, gc, run>>

\* the target's buffer not emptied: its chunk is the one of the iteration
\* before
CmpSelectKeepTarget ==
    /\ cmp.pc = "select"
    /\ cmp' = IF ctxDone
              THEN [cmp EXCEPT !.pc = "post", !.equal = FALSE, !.err = ctxErr]
              ELSE [cmp EXCEPT !.pc = "readSource", !.sourceChunk = <<>>,
                               !.sourceErr = "nil", !.targetErr = "nil"]
    /\ UNCHANGED <<ctx, cfg, pipe, dumper, chans, vc, restorer, mig, hist, norm, gc, run>>

\* the select at the head of each iteration
CmpSelect ==
    /\ cmp.pc = "select"
    /\ cmp' = IF ctxDone
              THEN [cmp EXCEPT !.pc = "post", !.equal = FALSE, !.err = ctxErr]
              ELSE [cmp EXCEPT !.pc = "readSource",
                               !.sourceChunk = <<>>, !.targetChunk = <<>>,
                               !.sourceErr = "nil", !.targetErr = "nil"]
    /\ UNCHANGED <<ctx, cfg, pipe, dumper, chans, vc, restorer, mig, hist, norm, gc, run>>

CmpReadSource ==
    /\ cmp.pc = "readSource"
    /\ ReadInto("source", "sourceChunk", "sourceErr", "readTarget")
    /\ UNCHANGED <<ctx, cfg, dumper, chans, vc, restorer, mig, hist, norm, gc, run>>

CmpReadTarget ==
    /\ cmp.pc = "readTarget"
    /\ ReadInto("target", "targetChunk", "targetErr", "compare")
    /\ UNCHANGED <<ctx, cfg, dumper, chans, vc, restorer, mig, hist, norm, gc, run>>

\* a switch without the case MongoDB: its chunks are not compared
compareChunksNoMongoDBCase(dbType, sourceChunk, sourceErr, targetChunk, targetErr) ==
    IF /\ dbType # MongoDB
       /\ Normalize(dbType, sourceChunk) # Normalize(dbType, targetChunk)
        THEN "notEqual"
    ELSE IF sourceErr = "EOF"
        THEN IF targetErr = "EOF"
             THEN IF Len(sourceChunk) = Len(targetChunk)
                  THEN "equal" ELSE "notEqual"
             ELSE "notEqual"
    ELSE IF targetErr = "EOF"
        THEN "notEqual"
    ELSE "next"

\* "Both streams ended": true returned without the test of the two counts
compareChunksNoLength(dbType, sourceChunk, sourceErr, targetChunk, targetErr) ==
    IF Normalize(dbType, sourceChunk) # Normalize(dbType, targetChunk)
        THEN "notEqual"
    ELSE IF sourceErr = "EOF"
        THEN IF targetErr = "EOF" THEN "equal" ELSE "notEqual"
    ELSE IF targetErr = "EOF"
        THEN "notEqual"
    ELSE "next"

\* a short last chunk (io.ErrUnexpectedEOF) taken for a difference: only an
\* empty read counts as the end of a stream
compareChunksStrictEOF(dbType, sourceChunk, sourceErr, targetChunk, targetErr) ==
    IF Normalize(dbType, sourceChunk) # Normalize(dbType, targetChunk)
        THEN "notEqual"
    ELSE IF sourceErr = "EOF"
        THEN IF targetErr = "EOF"
             THEN IF Len(sourceChunk) = 0 /\ Len(targetChunk) = 0
                  THEN "equal" ELSE "notEqual"
             ELSE "notEqual"
    ELSE IF targetErr = "EOF"
        THEN "notEqual"
    ELSE "next"

\* "Only one stream ended" left out: the loop goes on
compareChunksOneEnded(dbType, sourceChunk, sourceErr, targetChunk, targetErr) ==
    IF Normalize(dbType, sourceChunk) # Normalize(dbType, targetChunk)
        THEN "notEqual"
    ELSE IF sourceErr = "EOF" /\ targetErr = "EOF"
        THEN IF Len(sourceChunk) = Len(targetChunk)
             THEN "equal" ELSE "notEqual"
    ELSE "next"

\* what one iteration decides from the two chunks read: "notEqual",
\* "equal", or "next" for another iteration
compareChunks(dbType, sourceChunk, sourceErr, targetChunk, targetErr) ==
    IF Normalize(dbType, sourceChunk) # Normalize(dbType, targetChunk)
        THEN "notEqual"
    ELSE IF sourceErr = "EOF"
        THEN IF targetErr = "EOF"
             THEN IF Len(sourceChunk) = Len(targetChunk)
                  THEN "equal" ELSE "notEqual"
             ELSE "notEqual"
    ELSE IF targetErr = "EOF"
        THEN "notEqual"
    ELSE "next"

\* the tests of the two read results left out
readFailureIgnored(sourceErr, targetErr) == "nil"

\* "Handle read results": an error that is not the end of the stream
readFailure(sourceErr, targetErr) ==
    IF sourceErr \notin {"nil", "EOF"} THEN "error reading source"
    ELSE IF targetErr \notin {"nil", "EOF"} THEN "error reading target"
    ELSE "nil"

\* the rest of an iteration, after its two reads
CmpCompare ==
    /\ cmp.pc = "compare"
    /\ LET e == readFailure(cmp.sourceErr, cmp.targetErr)
           r == compareChunks(cfg.dbType, cmp.sourceChunk, cmp.sourceErr,
                              cmp.targetChunk, cmp.targetErr)
       IN  cmp' = IF e # "nil"
                  THEN [cmp EXCEPT !.pc = "post", !.equal = FALSE, !.err = e]
                  ELSE IF r = "next"
                  THEN [cmp EXCEPT !.pc = "select"]
                  ELSE [cmp EXCEPT !.pc = "post", !.equal = (r = "equal"),
                                   !.err = "nil"]
    /\ UNCHANGED <<ctx, cfg, pipe, dumper, chans, vc, restorer, mig, hist, norm, gc, run>>

\* the test of equal left out
compareOutcomeNoMismatch(equal, err) ==
    IF err # "nil" THEN err ELSE "nil"

\* what the goroutine posts for compareReaders' (equal, err)
compareOutcome(equal, err) ==
    IF err # "nil" THEN err
    ELSE IF ~equal THEN "mismatch"
    ELSE "nil"

\* the return after a send left out: the goroutine goes on to the next send
CmpPostNoReturn ==
    /\ cmp.pc = "post"
    /\ Send("compare", "compare", compareOutcome(cmp.equal, cmp.err))
    /\ cmp' = [cmp EXCEPT !.pc = IF cmp.err = "nil" /\ cmp.equal
                                 THEN "end" ELSE "post",
                          !.err = "nil", !.equal = (cmp.err = "nil")]
    /\ UNCHANGED <<ctx, cfg, pipe, dumper, vc, restorer, mig, norm, gc, run>>

CmpPost ==
    /\ cmp.pc = "post"
    /\ Send("compare", "compare", compareOutcome(cmp.equal, cmp.err))
    /\ cmp' = [cmp EXCEPT !.pc = "end"]
    /\ UNCHANGED <<ctx, cfg, pipe, dumper, vc, restorer, mig, norm, gc, run>>

(***************************************************************************)
(* VerifyContent.                                                          *)
(***************************************************************************)
\* the pipes, the channels and the three go statements
VerifyStart ==
    /\ vc.pc = "start"
    /\ vc' = [vc EXCEPT !.pc = "wait"]
    /\ dumper' = [d \in DOMAIN dumper |->
                    IF d \in Sides THEN [dumper[d] EXCEPT !.pc = "dump"]
                    ELSE dumper[d]]
    /\ cmp' = [cmp EXCEPT !.pc = "select"]
    /\ UNCHANGED <<ctx, cfg, pipe, chans, restorer, mig, hist, norm, gc, run>>

\* the target's error tested before the source's
VerifyResolveTargetFirst(sourceDumpError, targetDumpError, compareError) ==
    IF targetDumpError # "nil" THEN "failed to dump target database"
    ELSE IF sourceDumpError # "nil" THEN "failed to dump source database"
    ELSE IF compareError # "nil" THEN compareError
    ELSE "nil"

\* "Check for errors in order of importance"
VerifyResolve(sourceDumpError, targetDumpError, compareError) ==
    IF sourceDumpError # "nil" THEN "failed to dump source database"
    ELSE IF targetDumpError # "nil" THEN "failed to dump target database"
    ELSE IF compareError # "nil" THEN compareError
    ELSE "nil"

\* case <-ctx.Done(): return nil
VerifyCtxDoneNil ==
    /\ vc.pc = "wait"
    /\ ctxDone
    /\ vc' = [vc EXCEPT !.pc = "done", !.result = "nil"]
    /\ UNCHANGED <<ctx, cfg, pipe, dumper, cmp, chans, restorer, mig, hist, norm, gc, run>>

\* case <-ctx.Done(): return ctx.Err()
VerifyCtxDone ==
    /\ vc.pc = "wait"
    /\ ctxDone
    /\ vc' = [vc EXCEPT !.pc = "done", !.result = ctxErr]
    /\ UNCHANGED <<ctx, cfg, pipe, dumper, cmp, chans, restorer, mig, hist, norm, gc, run>>

VerifyLocal(ch) ==
    CASE ch = "source" -> "sourceDumpError"
      [] ch = "target" -> "targetDumpError"
      [] ch = "compare" -> "compareError"

\* a single select in place of the loop: the first outcome received decides
VerifyRecvFirst(ch) ==
    /\ vc.pc = "wait"
    /\ Recv(ch)
    /\ LET got == [vc EXCEPT ![VerifyLocal(ch)] = Head(chans[ch]),
                             !.completedOperations = @ + 1]
       IN  vc' = [got EXCEPT !.pc = "done",
                             !.result = VerifyResolve(got.sourceDumpError,
                                                      got.targetDumpError,
                                                      got.compareError)]
    /\ UNCHANGED <<ctx, cfg, pipe, dumper, cmp, restorer, mig, norm, gc, run>>

\* all three collected, but the first error to arrive is the one returned
VerifyRecvArrival(ch) ==
    /\ vc.pc = "wait"
    /\ Recv(ch)
    /\ LET err == Head(chans[ch])
           got == [vc EXCEPT ![VerifyLocal(ch)] = err,
                             !.completedOperations = @ + 1,
                             !.result = IF @ = "none" /\ err # "nil"
                                        THEN VerifyResolve(
                                               IF ch = "source" THEN err ELSE "nil",
                                               IF ch = "target" THEN err ELSE "nil",
                                               IF ch = "compare" THEN err ELSE "nil")
                                        ELSE @]
       IN  vc' = IF got.completedOperations < 3
                 THEN got
                 ELSE [got EXCEPT !.pc = "done",
                                  !.result = IF @ = "none" THEN "nil" ELSE @]
    /\ UNCHANGED <<ctx, cfg, pipe, dumper, cmp, restorer, mig, norm, gc, run>>

\* case err := <-sourceDumpErr (targetDumpErr, compareErr), the loop's test
\* and, after the third outcome, the return
VerifyRecv(ch) ==
    /\ vc.pc = "wait"
    /\ Recv(ch)
    /\ LET got == [vc EXCEPT ![VerifyLocal(ch)] = Head(chans[ch]),
                             !.completedOperations = @ + 1]
       IN  vc' = IF got.completedOperations < 3
                 THEN got
                 ELSE [got EXCEPT !.pc = "done",
                                  !.result = VerifyResolve(got.sourceDumpError,
                                                           got.targetDumpError,
                                                           got.compareError)]
    /\ UNCHANGED <<ctx, cfg, pipe, dumper, cmp, restorer, mig, norm, gc, run>>

(***************************************************************************)
(* The specification of one VerifyContent call.                            *)
(***************************************************************************)
AllChans == VerifyChans \cup {"errChan", "hashErr"}

Pipes == Sides \cup {"migrate"}

\* with the pipe of GetChecksum
AllPipes == Pipes \cup {"checksum"}

\* fault: a reader whose Read may fail with an error other than io.EOF; an
\* io.Pipe whose write end is closed with Close has none
IdlePipe == [data |-> <<>>, wclosed |-> FALSE, fault |-> FALSE]

IdleCmp ==
    [pc |-> "idle", sourceChunk |-> <<>>, targetChunk |-> <<>>,
     sourceErr |-> "nil", targetErr |-> "nil", equal |-> FALSE, err |-> "nil"]

IdleHist ==
    [posts |-> [c \in AllChans |-> <<>>], recvs |-> [c \in AllChans |-> 0],
     arrival |-> <<>>]

\* eof: the goroutine copying the pipe into the process has read io.EOF
IdleRestorer ==
    [pc |-> "idle", proc |-> "none", err |-> "nil", eof |-> FALSE]

IdleMig == [pc |-> "idle", i |-> 0, result |-> "none"]

\* hash: the bytes written to the hash so far; buf: the bytes io.Copy has
\* read and not yet written to it
IdleGc ==
    [pc |-> "idle", copy |-> "idle", hash |-> <<>>, buf |-> <<>>,
     checksum |-> <<>>, err |-> "nil"]

\* op: the operation whose error is reported; ctxAtReturn: observation, the
\* context of that operation when it returned its error
IdleRun ==
    [pc |-> "idle", op |-> "none", ctxAtReturn |-> "none", err |-> "none"]

IdleNorm == [pc |-> "idle", chunk |-> <<>>, once |-> <<>>, twice |-> <<>>]

IdleVc ==
    [pc |-> "idle", sourceDumpError |-> "nil", targetDumpError |-> "nil",
     compareError |-> "nil", completedOperations |-> 0, result |-> "none"]

\* a verifier as NewDatabaseVerifier returns it: two dumpers of one type
Init ==
    /\ ctx = "live"
    /\ \E t \in DatabaseType, n \in VerifyChunkSizes,
          so \in Outputs, to \in Outputs :
         cfg = [dbType |-> t, chunkSize |-> n,
                sourceOut |-> so, targetOut |-> to]
    /\ pipe = [p \in AllPipes |-> IdlePipe]
    /\ dumper = [d \in AllPipes |->
                   [pc |-> "idle", err |-> "nil",
                    rest |-> CASE d = "source" -> cfg.sourceOut
                               [] d = "target" -> cfg.targetOut
                               [] OTHER -> <<>>]]
    /\ cmp = IdleCmp
    /\ chans = [c \in AllChans |-> <<>>]
    /\ vc = [IdleVc EXCEPT !.pc = "start"]
    /\ restorer = IdleRestorer
    /\ mig = IdleMig
    /\ hist = IdleHist
    /\ norm = IdleNorm
    /\ gc = IdleGc
    /\ run = IdleRun

Next ==
    \/ CtxFire
    \/ VerifyStart
    \/ \E d \in Sides : DumpWrite(d)
    \/ \E d \in Sides : DumpWriteDone(d)
    \/ \E d \in Sides : DumpReturnNil(d)
    \/ \E d \in Sides : DumpFail(d)
    \/ \E d \in Sides : VerifyDumpPost(d)
    \/ \E d \in Sides : WriterClose(d)
    \/ CmpSelect
    \/ CmpReadSource
    \/ CmpReadTarget
    \/ CmpCompare
    \/ CmpPost
    \/ VerifyCtxDone
    \/ \E ch \in VerifyChans : VerifyRecv(ch)

Spec == Init /\ [][Next]_vars

(***************************************************************************)
(* The specification of one compareReaders call on two readers that hold   *)
(* their streams, as the third goroutine of VerifyContent runs it.         *)
(***************************************************************************)
RowSp == <<"r", "1", " ">>
RowTab == <<"r", "1", "\t">>
Blank == <<" ", " ", " ">>

\* a line the normalizer of the dialect recognizes as noise, with text x
NoiseLine(dbType, x) ==
    CASE dbType = Postgres -> PfxDumpedOn \o x
      [] dbType = MySQL -> PfxMySQLDump \o x
      [] dbType = MongoDB -> SubDate \o x

CompareLines(dbType) ==
    {Row1, Row2, RowSp, RowTab, Blank,
     NoiseLine(dbType, <<" ", "A">>), NoiseLine(dbType, <<" ", "B", "B">>)}

\* the streams of one line
ShortStreams(dbType) ==
    {<<>>} \cup {l \o <<LF>> : l \in CompareLines(dbType)}

\* the streams of up to two lines
CompareStreams(dbType) ==
    ShortStreams(dbType) \cup
    {l1 \o <<LF>> \o l2 \o <<LF>> :
        l1 \in CompareLines(dbType), l2 \in CompareLines(dbType)}

InitCompare ==
    /\ ctx = "live"
    /\ \E t \in DatabaseType, n \in VerifyChunkSizes,
          f \in {"none", "source", "target"} :
       \E s \in CompareStreams(t), g \in CompareStreams(t) :
         /\ f # "none" => (s \in ShortStreams(t) /\ g \in ShortStreams(t))
         /\ cfg = [dbType |-> t, chunkSize |-> n, source |-> s, target |-> g,
                   fault |-> f]
    /\ pipe = [p \in AllPipes |->
                 IF p \in Sides
                 THEN [data |-> cfg[p], wclosed |-> TRUE, fault |-> cfg.fault = p]
                 ELSE IdlePipe]
    /\ dumper = [d \in AllPipes |-> [pc |-> "idle", err |-> "nil", rest |-> <<>>]]
    /\ cmp = [IdleCmp EXCEPT !.pc = "select"]
    /\ chans = [c \in AllChans |-> <<>>]
    /\ vc = IdleVc
    /\ restorer = IdleRestorer
    /\ mig = IdleMig
    /\ hist = IdleHist
    /\ norm = IdleNorm
    /\ gc = IdleGc
    /\ run = IdleRun

NextCompare ==
    \/ CtxFire
    \/ CmpSelect
    \/ CmpReadSource
    \/ CmpReadTarget
    \/ CmpCompare
    \/ CmpPost

SpecCompare == InitCompare /\ [][NextCompare]_vars

(***************************************************************************)
(* Properties of VerifyContent (specification Spec).                       *)
(***************************************************************************)
\* the outcome a task posted to its channel; "none" before it posts
Posted(ch) ==
    IF hist.posts[ch] = <<>> THEN "none" ELSE hist.posts[ch][1].v

ReceivedAll == \A ch \in VerifyChans : hist.recvs[ch] = 1

\* C1: VerifyContent returns a verdict only after it has received the
\* outcome of all three tasks; a return before that is the context's error,
\* after the context has fired.
C1_WaitsForAllThree ==
    vc.pc = "done" =>
        \/ vc.completedOperations = 3 /\ ReceivedAll
        \/ ctxDone /\ vc.result = ctxErr /\ vc.completedOperations < 3

\* the source dump's failure arrived first and the verdict still waited
\* for the other two outcomes
C1_Witness ==
    /\ vc.pc = "done"
    /\ vc.completedOperations = 3
    /\ hist.arrival[1] = "source"
    /\ vc.result = "failed to dump source database"

\* C2: with all three outcomes collected the error returned follows the
\* fixed priority source dump, target dump, comparison, whatever the order
\* of arrival.
C2_FixedPriority ==
    (vc.pc = "done" /\ vc.completedOperations = 3) =>
        /\ Posted("source") # "nil"
             => vc.result = "failed to dump source database"
        /\ (Posted("source") = "nil" /\ Posted("target") # "nil")
             => vc.result = "failed to dump target database"
        /\ ( /\ Posted("source") = "nil" /\ Posted("target") = "nil"
             /\ Posted("compare") # "nil" )
             => vc.result = Posted("compare")

\* both dumps failed, the target's failure arrived before the source's, and
\* the source's is the one returned
C2_Witness ==
    /\ vc.pc = "done"
    /\ vc.completedOperations = 3
    /\ Posted("source") # "nil"
    /\ Posted("target") # "nil"
    /\ hist.arrival[1] = "target"
    /\ vc.result = "failed to dump source database"

\* C3, as claimed: VerifyContent returns success if and only if the source
\* dump posted nil, the target dump posted nil and the comparator's outcome
\* was Equal.
C3_SuccessIffAllPostedNil ==
    vc.pc = "done" =>
        (vc.result = "nil" <=> \A ch \in VerifyChans : Posted(ch) = "nil")

\* C3, amended: VerifyContent returns success if and only if it has received
\* nil from the source dump, nil from the target dump and Equal from the
\* comparator; it never returns success while the comparison is running or
\* after the comparator found NotEqual or an error.
C3_SuccessIffAllReceivedNil ==
    vc.pc = "done" =>
        /\ vc.result = "nil" <=>
             /\ ReceivedAll
             /\ \A ch \in VerifyChans : Posted(ch) = "nil"
        /\ vc.result = "nil" => (cmp.pc = "end" /\ cmp.equal /\ cmp.err = "nil")

\* success, returned after the comparator's Equal arrived last
C3_Witness ==
    /\ vc.pc = "done"
    /\ vc.result = "nil"
    /\ Len(hist.arrival) = 3
    /\ hist.arrival[3] = "compare"

\* the lines of two outputs differ only in the text after "-- Dumped on"
OnlyDumpedOnDiffers(a, b) ==
    /\ Len(Split(a)) = Len(Split(b))
    /\ \A i \in 1..Len(Split(a)) :
         \/ Split(a)[i] = Split(b)[i]
         \/ HasPrefix(Split(a)[i], PfxDumpedOn) /\ HasPrefix(Split(b)[i], PfxDumpedOn)

\* two outputs differ in a line that is a data row in both
DifferInDataRow(a, b) ==
    /\ Len(Split(a)) = Len(Split(b))
    /\ \E i \in 1..Len(Split(a)) :
         /\ Split(a)[i] # Split(b)[i]
         /\ PostgresKeepLine(Split(a)[i])
         /\ PostgresKeepLine(Split(b)[i])

\* C4: for two Postgres producers that both succeed and a context that does
\* not fire, VerifyContent returns success when the outputs are identical
\* except for the text of their "-- Dumped on" lines, and the content
\* mismatch error when they differ in a data row.
C4_EndToEnd ==
    ( /\ vc.pc = "done"
      /\ ctx = "live"
      /\ cfg.dbType = Postgres
      /\ Posted("source") = "nil"
      /\ Posted("target") = "nil" ) =>
        /\ OnlyDumpedOnDiffers(cfg.sourceOut, cfg.targetOut)
             => vc.result = "nil"
        /\ DifferInDataRow(cfg.sourceOut, cfg.targetOut)
             => vc.result = "mismatch"

\* C5, as claimed: once the context has fired with fewer than three outcomes
\* received, what VerifyContent returns is the context's error, never a dump
\* or comparison verdict.
C5_CtxErrorOnly ==
    [][(vc.pc = "wait" /\ ctxDone /\ vc'.pc = "done")
         => vc'.result = ctxErr]_vars

\* C5, amended: once the context has fired VerifyContent never waits for a
\* task that has not posted: its select can return the context's error at
\* once, and it returns a verdict instead only when the select receives
\* outcomes that are already posted until all three are in.
C5_NeverWaitsAfterCtx ==
    /\ [](vc.pc = "wait" /\ ctxDone => ENABLED VerifyCtxDone)
    /\ [][(vc.pc = "wait" /\ ctxDone /\ vc'.pc = "done")
            => \/ vc'.result = ctxErr /\ hist' = hist
               \/ /\ vc'.completedOperations = 3
                  /\ \E ch \in VerifyChans :
                       chans[ch] # <<>> /\ hist'.recvs[ch] = hist.recvs[ch] + 1
         ]_vars

\* the context's error returned with an outcome still missing and a dump
\* blocked in a Write
C5_Witness ==
    /\ vc.pc = "done"
    /\ ctxDone
    /\ vc.result = ctxErr
    /\ vc.completedOperations < 3
    /\ \E d \in Sides : dumper[d].pc = "write"

\* C6: with a context that never fires, what VerifyContent returns is a
\* function of the three outcomes alone, the same for every interleaving
\* and every order of arrival.
C6_ArrivalOrderIrrelevant ==
    (vc.pc = "done" /\ ctx = "live") =>
        vc.result =
            CASE Posted("source") # "nil" -> "failed to dump source database"
              [] Posted("source") = "nil" /\ Posted("target") # "nil"
                   -> "failed to dump target database"
              [] OTHER -> Posted("compare")

\* the deciding outcome arrived last, after two that it outranks
C6_Witness ==
    /\ vc.pc = "done"
    /\ ctx = "live"
    /\ hist.arrival = <<"compare", "target", "source">>
    /\ Posted("compare") = "mismatch"
    /\ Posted("target") = "dumpErr"
    /\ vc.result = "failed to dump source database"

\* C7: each task posts one outcome, to its own channel and to no other: a
\* channel is written at most once, by its owner, and read at most once; a
\* task that has gone past its send has posted exactly once, one that has
\* not has posted nothing.
C7_OneShotChannels ==
    /\ \A ch \in VerifyChans :
         /\ Len(hist.posts[ch]) <= 1
         /\ hist.recvs[ch] <= Len(hist.posts[ch])
         /\ \A i \in 1..Len(hist.posts[ch]) : hist.posts[ch][i].who = ch
    /\ \A d \in Sides :
         Len(hist.posts[d]) = IF dumper[d].pc \in {"close", "end"} THEN 1 ELSE 0
    /\ Len(hist.posts["compare"]) = IF cmp.pc = "end" THEN 1 ELSE 0
    /\ hist.posts["errChan"] = <<>>

\* all three outcomes posted once and read once
C7_Witness ==
    \A ch \in VerifyChans : Len(hist.posts[ch]) = 1 /\ hist.recvs[ch] = 1

(***************************************************************************)
(* Migrate.                                                                *)
(***************************************************************************)
\* CreateDumper and CreateRestorer: the switch on the database type
Supported(dbType) == dbType \in DatabaseType

\* the head of Migrate: the two factories, stdout mode, the pipe, the
\* channel and the two go statements
MigrateStart ==
    /\ mig.pc = "start"
    /\ IF ~Supported(cfg.sourceType)
       THEN /\ mig' = [mig EXCEPT !.pc = "done",
                                  !.result = "failed to create dumper"]
            /\ UNCHANGED <<dumper, restorer, norm, gc, run>>
       ELSE IF cfg.stdoutMode
       THEN /\ mig' = [mig EXCEPT !.pc = "stdout"]
            /\ UNCHANGED <<dumper, restorer, norm, gc, run>>
       ELSE IF ~Supported(cfg.targetType)
       THEN /\ mig' = [mig EXCEPT !.pc = "done",
                                  !.result = "failed to create restorer"]
            /\ UNCHANGED <<dumper, restorer, norm, gc, run>>
       ELSE /\ mig' = [mig EXCEPT !.pc = "wait"]
            /\ dumper' = [dumper EXCEPT !["migrate"].pc = "dump"]
            /\ restorer' = [restorer EXCEPT !.pc = "start"]
    /\ UNCHANGED <<ctx, cfg, pipe, cmp, chans, vc, hist, norm, gc, run>>

\* return dumper.Dump(ctx, os.Stdout)
MigrateStdout ==
    /\ mig.pc = "stdout"
    /\ \E e \in {"nil", "dumpErr"} :
         mig' = [mig EXCEPT !.pc = "done", !.result = e]
    /\ UNCHANGED <<ctx, cfg, pipe, dumper, cmp, chans, vc, restorer, hist, norm, gc, run>>

\* the write end closed before the outcome is posted
MigrateDumpCloseThenPost ==
    /\ dumper["migrate"].pc = "post"
    /\ IF ~pipe["migrate"].wclosed
       THEN /\ pipe' = [pipe EXCEPT !["migrate"].wclosed = TRUE]
            /\ UNCHANGED <<chans, hist, dumper>>
       ELSE /\ Send("errChan", "dump",
                    IF dumper["migrate"].err # "nil" THEN "dump failed"
                    ELSE "nil")
            /\ dumper' = [dumper EXCEPT !["migrate"].pc = "close"]
            /\ UNCHANGED pipe
    /\ UNCHANGED <<ctx, cfg, cmp, vc, restorer, mig, norm, gc, run>>

\* the dump goroutine's send
MigrateDumpPost ==
    /\ dumper["migrate"].pc = "post"
    /\ Send("errChan", "dump",
            IF dumper["migrate"].err # "nil" THEN "dump failed" ELSE "nil")
    /\ dumper' = [dumper EXCEPT !["migrate"].pc = "close"]
    /\ UNCHANGED <<ctx, cfg, pipe, cmp, vc, restorer, mig, norm, gc, run>>

(***************************************************************************)
(* A Restore call: exec.CommandContext(...).Run() with cmd.Stdin = reader. *)
(* Run fails at once when the process cannot be started.  Otherwise a      *)
(* goroutine copies the pipe into the process, and Run returns the         *)
(* process's exit status once the process has exited and that goroutine    *)
(* has stopped: at the end of the stream, or at its first Read after the   *)
(* process has exited.                                                     *)
(***************************************************************************)
RestoreStartFail ==
    /\ restorer.pc = "start"
    /\ restorer' = [restorer EXCEPT !.pc = "post", !.err = "restoreErr"]
    /\ UNCHANGED <<ctx, cfg, pipe, dumper, cmp, chans, vc, mig, hist, norm, gc, run>>

RestoreStarted ==
    /\ restorer.pc = "start"
    /\ restorer' = [restorer EXCEPT !.pc = "restore", !.proc = "alive"]
    /\ UNCHANGED <<ctx, cfg, pipe, dumper, cmp, chans, vc, mig, hist, norm, gc, run>>

\* the process exits before the end of its input: it failed, it was killed
\* when the context fired, or it was done early
RestoreProcExit ==
    /\ restorer.pc = "restore"
    /\ restorer.proc = "alive"
    /\ \E e \in {"nil", "restoreErr"} :
         restorer' = [restorer EXCEPT !.proc = "exited", !.err = e]
    /\ UNCHANGED <<ctx, cfg, pipe, dumper, cmp, chans, vc, mig, hist, norm, gc, run>>

RestoreRead ==
    /\ restorer.pc = "restore"
    /\ pipe["migrate"].data # <<>>
    /\ pipe' = [pipe EXCEPT !["migrate"].data = <<>>]
    /\ restorer' = [restorer EXCEPT
                      !.pc = IF restorer.proc = "exited" THEN "post" ELSE @]
    /\ UNCHANGED <<ctx, cfg, dumper, cmp, chans, vc, mig, hist, norm, gc, run>>

RestoreEOF ==
    /\ restorer.pc = "restore"
    /\ pipe["migrate"].data = <<>>
    /\ pipe["migrate"].wclosed
    /\ IF restorer.proc = "exited"
       THEN restorer' = [restorer EXCEPT !.pc = "post", !.eof = TRUE]
       ELSE \E e \in {"nil", "restoreErr"} :
              restorer' = [restorer EXCEPT !.pc = "post", !.proc = "exited",
                                           !.err = e, !.eof = TRUE]
    /\ UNCHANGED <<ctx, cfg, pipe, dumper, cmp, chans, vc, mig, hist, norm, gc, run>>

\* the restore goroutine's send
MigrateRestorePost ==
    /\ restorer.pc = "post"
    /\ Send("errChan", "restore",
            IF restorer.err # "nil" THEN "restore failed" ELSE "nil")
    /\ restorer' = [restorer EXCEPT !.pc = "end"]
    /\ UNCHANGED <<ctx, cfg, pipe, dumper, cmp, vc, mig, norm, gc, run>>

\* no loop: the first outcome received, success or failure, is returned
MigrateRecvFirst ==
    /\ mig.pc = "wait"
    /\ Recv("errChan")
    /\ mig' = [mig EXCEPT !.i = @ + 1, !.pc = "done",
                          !.result = Head(chans["errChan"])]
    /\ UNCHANGED <<ctx, cfg, pipe, dumper, cmp, vc, restorer, norm, gc, run>>

\* both outcomes collected before the first failure is returned
MigrateRecvBoth ==
    /\ mig.pc = "wait"
    /\ Recv("errChan")
    /\ LET err == Head(chans["errChan"])
           got == [mig EXCEPT !.i = @ + 1,
                              !.result = IF @ = "none" /\ err # "nil"
                                         THEN err ELSE @]
       IN  mig' = IF got.i < 2
                  THEN got
                  ELSE [got EXCEPT !.pc = "done",
                                   !.result = IF @ = "none" THEN "nil" ELSE @]
    /\ UNCHANGED <<ctx, cfg, pipe, dumper, cmp, vc, restorer, norm, gc, run>>

\* for i := 0; i < 2; i++ { if err := <-errChan; err != nil { return err } }
MigrateRecv ==
    /\ mig.pc = "wait"
    /\ Recv("errChan")
    /\ LET err == Head(chans["errChan"])
       IN  mig' = IF err # "nil"
                  THEN [mig EXCEPT !.pc = "done", !.result = err]
                  ELSE IF mig.i + 1 < 2
                  THEN [mig EXCEPT !.i = @ + 1]
                  ELSE [mig EXCEPT !.i = @ + 1, !.pc = "done",
                                   !.result = "nil"]
    /\ UNCHANGED <<ctx, cfg, pipe, dumper, cmp, vc, restorer, norm, gc, run>>

(***************************************************************************)
(* The specification of one Migrate call.                                  *)
(***************************************************************************)
ConfigTypes == DatabaseType \cup {"other"}

InitMigrate ==
    /\ ctx = "live"
    /\ \E s \in ConfigTypes, t \in ConfigTypes, o \in BOOLEAN,
          so \in Outputs :
         cfg = [sourceType |-> s, targetType |-> t, stdoutMode |-> o,
                sourceOut |-> so]
    /\ pipe = [p \in AllPipes |-> IdlePipe]
    /\ dumper = [d \in AllPipes |->
                   [pc |-> "idle", err |-> "nil",
                    rest |-> IF d = "migrate" THEN cfg.sourceOut ELSE <<>>]]
    /\ cmp = IdleCmp
    /\ chans = [c \in AllChans |-> <<>>]
    /\ vc = IdleVc
    /\ restorer = IdleRestorer
    /\ mig = [IdleMig EXCEPT !.pc = "start"]
    /\ hist = IdleHist
    /\ norm = IdleNorm
    /\ gc = IdleGc
    /\ run = IdleRun

NextMigrate ==
    \/ CtxFire
    \/ MigrateStart
    \/ MigrateStdout
    \/ DumpWrite("migrate")
    \/ DumpWriteDone("migrate")
    \/ DumpReturnNil("migrate")
    \/ DumpFail("migrate")
    \/ MigrateDumpPost
    \/ WriterClose("migrate")
    \/ RestoreStartFail
    \/ RestoreStarted
    \/ RestoreProcExit
    \/ RestoreRead
    \/ RestoreEOF
    \/ MigrateRestorePost
    \/ MigrateRecv

SpecMigrate == InitMigrate /\ [][NextMigrate]_vars

\* the goroutines run: a step of a goroutine that stays possible is taken
MigrateFairness ==
    /\ WF_vars(MigrateStart)
    /\ WF_vars(MigrateDumpPost)
    /\ WF_vars(WriterClose("migrate"))
    /\ WF_vars(RestoreStartFail \/ RestoreStarted)
    /\ WF_vars(RestoreRead)
    /\ WF_vars(RestoreEOF)
    /\ WF_vars(MigrateRestorePost)
    /\ WF_vars(MigrateRecv)

SpecMigrateFair == SpecMigrate /\ MigrateFairness

(***************************************************************************)
(* One call of either operation, with the goroutines of both running.      *)
(***************************************************************************)
\* the goroutines and the dump processes run whenever they are not blocked
PipeFairness ==
    /\ WF_vars(VerifyStart)
    /\ WF_vars(MigrateStart)
    /\ \A p \in Pipes : WF_vars(DumpWrite(p))
    /\ \A p \in Pipes : WF_vars(DumpWriteDone(p))
    /\ \A p \in Pipes : WF_vars(DumpReturnNil(p))
    /\ \A d \in Sides : WF_vars(VerifyDumpPost(d))
    /\ WF_vars(MigrateDumpPost)
    /\ \A p \in Pipes : WF_vars(WriterClose(p))
    /\ WF_vars(CmpSelect)
    /\ WF_vars(CmpReadSource)
    /\ WF_vars(CmpReadTarget)
    /\ WF_vars(CmpCompare)
    /\ WF_vars(CmpPost)
    /\ WF_vars(RestoreStartFail \/ RestoreStarted)
    /\ WF_vars(RestoreRead)
    /\ WF_vars(RestoreEOF)
    /\ WF_vars(MigrateRestorePost)
    /\ WF_vars(MigrateRecv)
    /\ WF_vars(VerifyCtxDone \/ \E ch \in VerifyChans : VerifyRecv(ch))

\* the outputs of the runs followed to their end: a dump of several Writes
\* and an empty one
FairOutputs == {OutA, <<>>}

InitEither ==
    \/ /\ Init
       /\ cfg.dbType = Postgres
       /\ cfg.chunkSize = 4
       /\ cfg.sourceOut \in FairOutputs
       /\ cfg.targetOut \in FairOutputs \cup {OutRow2}
    \/ /\ InitMigrate
       /\ cfg.sourceOut \in FairOutputs

NextEither == Next \/ NextMigrate

SpecEitherFair ==
    InitEither /\ [][NextEither]_vars /\ PipeFairness

(***************************************************************************)
(* Properties of Migrate (specifications SpecMigrate, SpecMigrateFair).    *)
(***************************************************************************)
\* Migrate got as far as its two go statements
MigrateStreamed ==
    Supported(cfg.sourceType) /\ ~cfg.stdoutMode /\ Supported(cfg.targetType)

\* C8: Migrate returns the first failure posted by either task, tagged by
\* its origin ("dump failed" for Dump, "restore failed" for Restore), and
\* returns on it without waiting for the other task's outcome.
C8_FirstFailureTagged ==
    (mig.pc = "done" /\ MigrateStreamed) =>
        LET posted == hist.posts["errChan"]
            n == hist.recvs["errChan"]
        IN  /\ n \in 1..2
            /\ n <= Len(posted)
            /\ \A i \in 1..(n - 1) : posted[i].v = "nil"
            /\ mig.result = posted[n].v
            /\ posted[1].v # "nil" => n = 1
            /\ mig.result = "nil" => n = 2
            /\ mig.result = "dump failed" <=>
                 (posted[n].who = "dump" /\ dumper["migrate"].err = "dumpErr")
            /\ mig.result = "restore failed" <=>
                 (posted[n].who = "restore" /\ restorer.err = "restoreErr")

\* the restore failure returned while the dump is still running
C8_Witness ==
    /\ mig.pc = "done"
    /\ mig.result = "restore failed"
    /\ hist.recvs["errChan"] = 1
    /\ dumper["migrate"].pc = "write"

\* Dump failed before it wrote a byte
ProducerFailedImmediately ==
    /\ dumper["migrate"].err = "dumpErr"
    /\ dumper["migrate"].rest = cfg.sourceOut
    /\ dumper["migrate"].pc # "idle"

\* C9: when the producer fails immediately, with the consumer waiting on
\* the empty pipe, Migrate returns "dump failed" on that one outcome, the
\* write end of the pipe is closed and the consumer comes to an end.
C9_ProducerFailsImmediately ==
    /\ []( ( /\ mig.pc = "done"
             /\ ProducerFailedImmediately
             /\ hist.posts["errChan"][1].who = "dump" )
           => (mig.result = "dump failed" /\ hist.recvs["errChan"] = 1) )
    /\ []( (ProducerFailedImmediately /\ dumper["migrate"].pc = "end")
           => pipe["migrate"].wclosed )
    /\ (ProducerFailedImmediately ~> pipe["migrate"].wclosed)
    /\ (ProducerFailedImmediately ~> restorer.pc = "end")

\* "dump failed" returned while the consumer, which has not reported,
\* still waits on the empty pipe
C9_Witness ==
    /\ mig.pc = "done"
    /\ mig.result = "dump failed"
    /\ ProducerFailedImmediately
    /\ hist.recvs["errChan"] = 1
    /\ restorer.pc = "restore"
    /\ restorer.proc = "alive"
    /\ hist.posts["errChan"] = <<[who |-> "dump", v |-> "dump failed"]>>

\* C10: if the context fires before a task outcome has decided the result,
\* Migrate returns a cancellation or timeout outcome.
C10_ReturnsCtxError ==
    [][(mig.pc = "wait" /\ ctxDone /\ mig'.pc = "done")
         => mig'.result \in {"canceled", "deadline"}]_vars

\* C11, as claimed: when the first outcome Migrate receives is a success,
\* Migrate returns success on it, whatever the other task does.
C11_FirstSuccessAccepted ==
    ( /\ MigrateStreamed
      /\ hist.recvs["errChan"] >= 1
      /\ hist.posts["errChan"][1].v = "nil" )
        => (mig.pc = "done" /\ mig.result = "nil")

\* C11, amended: Migrate returns success only after it has received a
\* success from both the producer and the consumer; after a first success it
\* goes on waiting for the other task's outcome.
C11_SuccessNeedsBoth ==
    MigrateStreamed =>
        /\ (mig.pc = "done" /\ mig.result = "nil") =>
              /\ hist.recvs["errChan"] = 2
              /\ Len(hist.posts["errChan"]) = 2
              /\ \A i \in 1..2 : hist.posts["errChan"][i].v = "nil"
              /\ {hist.posts["errChan"][i].who : i \in 1..2} = {"dump", "restore"}
              /\ dumper["migrate"].err = "nil"
              /\ restorer.err = "nil"
        /\ ( /\ hist.recvs["errChan"] = 1
             /\ hist.posts["errChan"][1].v = "nil" ) => mig.pc = "wait"

\* the consumer's success was received first, the producer still being in a
\* Write, and Migrate waits
C11_Witness ==
    /\ mig.pc = "wait"
    /\ hist.recvs["errChan"] = 1
    /\ hist.posts["errChan"] = <<[who |-> "restore", v |-> "nil"]>>
    /\ dumper["migrate"].pc = "write"

(***************************************************************************)
(* Properties of the pipes (specification SpecEitherFair).                 *)
(***************************************************************************)
\* the Dump call writing into pipe p has returned
DumpReturned(p) == dumper[p].pc \in {"post", "close", "end"}

\* the reader of pipe p has got the end of the stream from a Read
SawEOF(p) ==
    CASE p = "source" -> cmp.sourceErr = "EOF"
      [] p = "target" -> cmp.targetErr = "EOF"
      [] p = "migrate" -> restorer.eof

\* the reader of pipe p is in a Read of it
ReaderInRead(p) ==
    CASE p = "source" -> cmp.pc = "readSource"
      [] p = "target" -> cmp.pc = "readTarget"
      [] p = "migrate" -> restorer.pc = "restore"

\* C12, as claimed: in every execution where Dump returns, the reader of
\* its pipe eventually observes the end of the stream.
C12_ReaderAlwaysSeesEOF ==
    \A p \in Pipes : DumpReturned(p) ~> SawEOF(p)

\* C12, amended: once Dump has returned, with success or failure, the write
\* end of its pipe is eventually closed, and it is closed at no other time; a
\* reader that is in a Read of that pipe then observes the end of the
\* stream.
C12_ClosedOnceDumpReturns ==
    /\ \A p \in Pipes : DumpReturned(p) ~> pipe[p].wclosed
    /\ [](\A p \in Pipes : pipe[p].wclosed => dumper[p].pc = "end")
    /\ \A p \in Pipes : (DumpReturned(p) /\ ReaderInRead(p)) ~> SawEOF(p)

\* a dump failed after part of its output, its pipe was closed and the
\* comparator read the end of the stream
C12_Witness ==
    /\ dumper["source"].err = "dumpErr"
    /\ dumper["source"].rest # cfg.sourceOut
    /\ pipe["source"].wclosed
    /\ cmp.sourceErr = "EOF"

\* C13: the pipe of Migrate holds no backlog: the bytes in it that the
\* consumer has not read are those of the one Write the producer is in, and
\* that Write returns only when the consumer has read all of them.
C13_NoBacklog ==
    /\ [](pipe["migrate"].data # <<>> => dumper["migrate"].pc = "write")
    /\ [][(dumper["migrate"].pc = "write" /\ dumper'["migrate"].pc # "write")
            => pipe["migrate"].data = <<>>]_vars

\* a Write has returned, its bytes read by the consumer, and the producer
\* has more to write
C13_Witness ==
    /\ dumper["migrate"].pc = "dump"
    /\ dumper["migrate"].rest # <<>>
    /\ dumper["migrate"].rest # cfg.sourceOut
    /\ pipe["migrate"].data = <<>>
    /\ restorer.pc = "restore"

(***************************************************************************)
(* Properties of compareReaders (specification SpecCompare).               *)
(***************************************************************************)
\* compareReaders has returned (cmp.equal, cmp.err)
Returned == cmp.pc \in {"post", "end"}

\* the context has not fired and neither reader can fail
Undisturbed == ctx = "live" /\ cfg.fault = "none"

\* a line the normalizer of the dialect drops for one of its markers
IsNoise(dbType, line) ==
    CASE dbType = Postgres -> PostgresSkipLine(line)
      [] dbType = MySQL -> ~MySQLKeepLine(line)
      [] dbType = MongoDB -> ~MongoDBKeepLine(line)

NoNoise(dbType, stream) ==
    \A i \in 1..Len(Split(stream)) : ~IsNoise(dbType, Split(stream)[i])

\* C14: for every dialect and chunk size, on two byte-identical streams
\* without noise lines compareReaders returns Equal (true, nil), having
\* read both streams to their end.
C14_IdenticalStreamsEqual ==
    ( /\ Returned
      /\ Undisturbed
      /\ cfg.source = cfg.target
      /\ NoNoise(cfg.dbType, cfg.source) ) =>
        /\ cmp.equal
        /\ cmp.err = "nil"
        /\ \A d \in Sides : pipe[d].data = <<>>

\* Equal returned for two identical streams of two data rows, read in
\* chunks of which the last is empty
C14_Witness ==
    /\ Returned
    /\ Undisturbed
    /\ cfg.source = cfg.target
    /\ cfg.source = Row1 \o <<LF>> \o Row2 \o <<LF>>
    /\ cfg.chunkSize = 4
    /\ cmp.equal
    /\ cmp.sourceChunk = <<>>

\* the lines of a stream that are not noise
DataLines(dbType, stream) ==
    LET NotNoise(line) == ~IsNoise(dbType, line)
    IN  SelectSeq(Split(stream), NotNoise)

\* two streams differ in their noise lines at most
OnlyNoiseDiffers(dbType, a, b) == DataLines(dbType, a) = DataLines(dbType, b)

\* C15: on two streams that differ only in noise lines of their dialect,
\* whatever the length of those lines and wherever the chunks end,
\* compareReaders returns Equal.
C15_NoiseOnlyDifferenceEqual ==
    ( /\ Returned
      /\ Undisturbed
      /\ OnlyNoiseDiffers(cfg.dbType, cfg.source, cfg.target) ) =>
        (cmp.equal /\ cmp.err = "nil")

\* two streams of one length that differ in exactly one byte
DifferInOneByte(a, b) ==
    /\ Len(a) = Len(b)
    /\ Cardinality({i \in 1..Len(a) : a[i] # b[i]}) = 1

DiffPos(a, b) == CHOOSE i \in 1..Len(a) : a[i] # b[i]

\* the line of s that holds the byte at position i
LineOf(s, i) == Split(s)[1 + Cardinality({j \in 1..(i - 1) : s[j] = LF})]

\* the chunk of s, read in chunks of n bytes, that holds the byte at i
ChunkNo(n, i) == ((i - 1) \div n) + 1

ChunkOf(s, n, i) == SubSeq(s, (ChunkNo(n, i) - 1) * n + 1, Min(ChunkNo(n, i) * n, Len(s)))

\* the bytes compareReaders has taken from a reader
Consumed(d) == Len(cfg[d]) - Len(pipe[d].data)

\* the bytes of a stream up to the end of the chunk that holds position i
UpToChunkEnd(s, n, i) == Min(ChunkNo(n, i) * n, Len(s))

\* what the normalizer of the dialect makes of a line it keeps
KeptForm(dbType, line) ==
    IF dbType = Postgres THEN TrimSpace(line) ELSE line

KeepLine(dbType, line) ==
    CASE dbType = Postgres -> PostgresKeepLine(line)
      [] dbType = MySQL -> MySQLKeepLine(line)
      [] dbType = MongoDB -> MongoDBKeepLine(line)

\* the differing byte of a and b is no line break and lies, within its
\* chunk, in a line the normalizer keeps on both sides with different forms
DiffRetained(dbType, n, a, b) ==
    LET i == DiffPos(a, b)
        j == i - (ChunkNo(n, i) - 1) * n
        la == LineOf(ChunkOf(a, n, i), j)
        lb == LineOf(ChunkOf(b, n, i), j)
    IN  /\ a[i] # LF /\ b[i] # LF
        /\ KeepLine(dbType, la) /\ KeepLine(dbType, lb)
        /\ KeptForm(dbType, la) # KeptForm(dbType, lb)

\* the differing byte of a and b lies outside the noise lines of both
DiffOutsideNoise(dbType, a, b) ==
    /\ ~IsNoise(dbType, LineOf(a, DiffPos(a, b)))
    /\ ~IsNoise(dbType, LineOf(b, DiffPos(a, b)))

\* compareReaders returned NotEqual having read each stream up to the end
\* of the chunk that holds the differing byte, and no further
NotEqualAtDiff ==
    /\ ~cmp.equal
    /\ cmp.err = "nil"
    /\ \A d \in Sides :
         Consumed(d) = UpToChunkEnd(cfg[d], cfg.chunkSize,
                                    DiffPos(cfg.source, cfg.target))

IsStrictPrefix(a, b) == Len(a) < Len(b) /\ SubSeq(b, 1, Len(a)) = a

\* C17: when one stream is a strict prefix of the other, compareReaders
\* returns NotEqual, for every dialect and chunk size, also when the shorter
\* stream ends on a chunk boundary and the rest of the longer one is noise.
C17_StrictPrefixNotEqual ==
    ( /\ Returned
      /\ Undisturbed
      /\ \/ IsStrictPrefix(cfg.source, cfg.target)
         \/ IsStrictPrefix(cfg.target, cfg.source) ) =>
        (~cmp.equal /\ cmp.err = "nil")

\* NotEqual for a source that ends on the first chunk boundary and a target
\* that goes on with one noise line, both read in one chunk
C17_Witness ==
    /\ Returned
    /\ Undisturbed
    /\ cfg.dbType = Postgres
    /\ cfg.chunkSize = defaultChunkSize
    /\ cfg.source = Row1 \o <<LF>>
    /\ cfg.target = Row1 \o <<LF>> \o NoiseLine(Postgres, <<" ", "A">>) \o <<LF>>
    /\ Normalize(Postgres, cmp.sourceChunk) = Normalize(Postgres, cmp.targetChunk)
    /\ ~cmp.equal
    /\ cmp.err = "nil"

\* the same streams read in chunks of four bytes, the source ending on the
\* boundary of the first
C17_WitnessBoundary ==
    /\ Returned
    /\ Undisturbed
    /\ cfg.dbType = Postgres
    /\ cfg.chunkSize = 4
    /\ cfg.source = Row1 \o <<LF>>
    /\ cfg.target = Row1 \o <<LF>> \o NoiseLine(Postgres, <<" ", "A">>) \o <<LF>>
    /\ cmp.sourceChunk = <<>>
    /\ ~cmp.equal

\* the chunks io.ReadFull cuts a stream into, for a buffer of n bytes
NumChunks(s, n) == (Len(s) + n - 1) \div n

Chunk(s, n, k) == SubSeq(s, (k - 1) * n + 1, Min(k * n, Len(s)))

\* C18: whenever compareReaders returns Equal, both streams have ended and
\* were read to their end, their total byte counts are equal, and the chunks
\* of the two streams are pairwise equal after normalization, in sequence.
C18_EqualMeansEndedAndEqual ==
    (Returned /\ cmp.equal) =>
        /\ cmp.err = "nil"
        /\ cmp.sourceErr = "EOF" /\ cmp.targetErr = "EOF"
        /\ \A d \in Sides : pipe[d].data = <<>>
        /\ Len(cfg.source) = Len(cfg.target)
        /\ \A k \in 1..NumChunks(cfg.source, cfg.chunkSize) :
             Normalize(cfg.dbType, Chunk(cfg.source, cfg.chunkSize, k)) =
             Normalize(cfg.dbType, Chunk(cfg.target, cfg.chunkSize, k))

\* Equal returned after three iterations for two streams that are not
\* byte-identical
C18_Witness ==
    /\ Returned
    /\ cmp.equal
    /\ cfg.chunkSize = 4
    /\ Len(cfg.source) = 8
    /\ cfg.source # cfg.target

\* a Read of compareReaders has failed with an error that is not the end of
\* the stream
ReadFailed == cmp.sourceErr = "readErr" \/ cmp.targetErr = "readErr"

\* C19: a read failure other than the end of a stream, on either stream,
\* ends compareReaders in that iteration with (false, error), never with
\* NotEqual or Equal; the goroutine posts that error, and VerifyContent
\* returns it, not the content mismatch error.
C19_ReadFailureIsError ==
    /\ ReadFailed => cmp.pc \in {"readTarget", "compare", "post", "end"}
    /\ (ReadFailed /\ Returned) =>
         /\ ~cmp.equal
         /\ cmp.err = IF cmp.sourceErr = "readErr"
                      THEN "error reading source" ELSE "error reading target"
         /\ compareOutcome(cmp.equal, cmp.err) = cmp.err
         /\ VerifyResolve("nil", "nil", compareOutcome(cmp.equal, cmp.err))
              \notin {"nil", "mismatch"}
         /\ cmp.pc = "end" => Posted("compare") = cmp.err

\* the target's Read failed after the source was read to its end, and the
\* read error was posted
C19_Witness ==
    /\ cmp.pc = "end"
    /\ cmp.sourceErr = "EOF"
    /\ cmp.targetErr = "readErr"
    /\ cmp.sourceChunk = cmp.targetChunk
    /\ Posted("compare") = "error reading target"

(***************************************************************************)
(* The specification of a normalizer applied to a chunk, and again to its  *)
(* own output.                                                             *)
(***************************************************************************)
\* the lines of the chunks: data rows, noise lines, a noise line and a data
\* row behind white space, an empty comment and a blank line
\* an annotation comment of pg_dump: -- Name: A
NameLine == <<"-", "-", " ", "N", "a", "m", "e", ":", " ", "A">>

NormalizeLines(dbType) ==
    CompareLines(dbType) \cup
    {<<" ">> \o NoiseLine(dbType, <<" ", "A">>), <<" ">> \o Row1,
     EmptyComment, <<>>, NameLine}

\* the chunks of up to two lines, with and without a last line break
NormalizeChunks(dbType) ==
    {<<>>}
    \cup {l : l \in NormalizeLines(dbType)}
    \cup {l \o <<LF>> : l \in NormalizeLines(dbType)}
    \cup {l1 \o <<LF>> \o l2 :
            l1 \in NormalizeLines(dbType), l2 \in NormalizeLines(dbType)}
    \cup {l1 \o <<LF>> \o l2 \o <<LF>> :
            l1 \in NormalizeLines(dbType), l2 \in NormalizeLines(dbType)}

NormalizeOnce ==
    /\ norm.pc = "start"
    /\ norm' = [norm EXCEPT !.pc = "once",
                            !.once = Normalize(cfg.dbType, norm.chunk)]
    /\ UNCHANGED <<ctx, cfg, pipe, dumper, cmp, chans, vc, restorer, mig, hist, gc, run>>

NormalizeTwice ==
    /\ norm.pc = "once"
    /\ norm' = [norm EXCEPT !.pc = "twice",
                            !.twice = Normalize(cfg.dbType, norm.once)]
    /\ UNCHANGED <<ctx, cfg, pipe, dumper, cmp, chans, vc, restorer, mig, hist, gc, run>>

InitNormalize ==
    /\ ctx = "live"
    /\ \E t \in DatabaseType : \E c \in NormalizeChunks(t) :
         /\ cfg = [dbType |-> t]
         /\ norm = [IdleNorm EXCEPT !.pc = "start", !.chunk = c]
    /\ pipe = [p \in AllPipes |-> IdlePipe]
    /\ dumper = [d \in AllPipes |-> [pc |-> "idle", err |-> "nil", rest |-> <<>>]]
    /\ cmp = IdleCmp
    /\ chans = [c \in AllChans |-> <<>>]
    /\ vc = IdleVc
    /\ restorer = IdleRestorer
    /\ mig = IdleMig
    /\ hist = IdleHist
    /\ gc = IdleGc
    /\ run = IdleRun

NextNormalize == NormalizeOnce \/ NormalizeTwice

SpecNormalize == InitNormalize /\ [][NextNormalize]_vars

(***************************************************************************)
(* Properties of the normalizers (specification SpecNormalize).            *)
(***************************************************************************)
\* C20: for the normalizer of each dialect and every chunk c,
\* normalize(normalize(c)) = normalize(c).
C20_NormalizeIdempotent ==
    norm.pc = "twice" => norm.twice = norm.once

(***************************************************************************)
(* GetChecksum: the target's Dump is written to a pipe, a goroutine copies *)
(* the pipe into a hash, and the hash's sum is returned in hexadecimal.    *)
(***************************************************************************)
\* the value of a byte
ByteValue(b) ==
    CASE b = LF -> 10 [] b = " " -> 32 [] b = "-" -> 45 [] b = "1" -> 49
      [] b = "2" -> 50 [] b = ";" -> 59 [] b = "A" -> 65 [] b = "B" -> 66
      [] b = "D" -> 68 [] b = "d" -> 100 [] b = "e" -> 101 [] b = "m" -> 109
      [] b = "n" -> 110 [] b = "o" -> 111 [] b = "p" -> 112 [] b = "r" -> 114
      [] b = "u" -> 117

\* hash.Sum(nil) of a hash the bytes s were written to: a digest of fixed
\* width that absorbs the bytes in their order (sixteen bits here, where
\* SHA-256 has 256)
RECURSIVE sha256Absorb(_, _)
sha256Absorb(s, n) ==
    IF n = 0 THEN 5381
    ELSE (sha256Absorb(s, n - 1) * 33 + ByteValue(s[n])) % 65536

sha256Sum(s) == sha256Absorb(s, Len(s))

HexDigit(d) ==
    <<"0", "1", "2", "3", "4", "5", "6", "7",
      "8", "9", "a", "b", "c", "d", "e", "f">>[d + 1]

\* hex.EncodeToString of the digest
EncodeToString(n) ==
    <<HexDigit(n \div 4096), HexDigit((n \div 256) % 16),
      HexDigit((n \div 16) % 16), HexDigit(n % 16)>>

\* the pipe, the channel, the hash and the go statement; then the call of
\* the target dumper's Dump
GetChecksumStart ==
    /\ gc.pc = "start"
    /\ gc' = [gc EXCEPT !.pc = "dump", !.copy = "read"]
    /\ dumper' = [dumper EXCEPT !["checksum"] =
                    [pc |-> "dump", err |-> "nil", rest |-> cfg.targetOut]]
    /\ UNCHANGED <<ctx, cfg, pipe, cmp, chans, vc, restorer, mig, hist, norm,
                   run>>

\* io.Copy: one Read of the pipe into the copy buffer of 32 KiB
HashRead ==
    /\ gc.copy = "read"
    /\ pipe["checksum"].data # <<>>
    /\ LET k == Min(32 * 1024, Len(pipe["checksum"].data))
       IN  /\ gc' = [gc EXCEPT !.buf = Take(pipe["checksum"].data, k),
                               !.copy = "write"]
           /\ pipe' = [pipe EXCEPT !["checksum"].data = Drop(@, k)]
    /\ UNCHANGED <<ctx, cfg, dumper, cmp, chans, vc, restorer, mig, hist,
                   norm, run>>

\* io.Copy: the bytes read are written to the hash
HashWrite ==
    /\ gc.copy = "write"
    /\ gc' = [gc EXCEPT !.hash = @ \o gc.buf, !.buf = <<>>, !.copy = "read"]
    /\ UNCHANGED <<ctx, cfg, pipe, dumper, cmp, chans, vc, restorer, mig,
                   hist, norm, run>>

\* io.Copy reads io.EOF and returns nil, which the goroutine sends
HashPost ==
    /\ gc.copy = "read"
    /\ pipe["checksum"].data = <<>>
    /\ pipe["checksum"].wclosed
    /\ Send("hashErr", "copy", "nil")
    /\ gc' = [gc EXCEPT !.copy = "end"]
    /\ UNCHANGED <<ctx, cfg, pipe, dumper, cmp, vc, restorer, mig, norm, run>>

\* the write end left open when Dump failed
GetChecksumDumpReturnedNoClose ==
    /\ gc.pc = "dump"
    /\ dumper["checksum"].pc = "post"
    /\ pipe' = [pipe EXCEPT !["checksum"].wclosed =
                               (dumper["checksum"].err = "nil")]
    /\ dumper' = [dumper EXCEPT !["checksum"].pc = "end"]
    /\ gc' = IF dumper["checksum"].err # "nil"
             THEN [gc EXCEPT !.pc = "done",
                             !.err = "failed to dump database for checksum"]
             ELSE [gc EXCEPT !.pc = "recv"]
    /\ UNCHANGED <<ctx, cfg, cmp, chans, vc, restorer, mig, hist, norm, run>>

\* Dump has returned: writer.Close(), and the return of its error
GetChecksumDumpReturned ==
    /\ gc.pc = "dump"
    /\ dumper["checksum"].pc = "post"
    /\ pipe' = [pipe EXCEPT !["checksum"].wclosed = TRUE]
    /\ dumper' = [dumper EXCEPT !["checksum"].pc = "end"]
    /\ gc' = IF dumper["checksum"].err # "nil"
             THEN [gc EXCEPT !.pc = "done",
                             !.err = "failed to dump database for checksum"]
             ELSE [gc EXCEPT !.pc = "recv"]
    /\ UNCHANGED <<ctx, cfg, cmp, chans, vc, restorer, mig, hist, norm, run>>

\* the sum taken without the wait for the copy
GetChecksumNoWait ==
    /\ gc.pc = "recv"
    /\ gc' = [gc EXCEPT !.pc = "done",
                        !.checksum = EncodeToString(sha256Sum(gc.hash))]
    /\ UNCHANGED <<ctx, cfg, pipe, dumper, cmp, chans, vc, restorer, mig,
                   hist, norm, run>>

\* "Wait for hash calculation to complete", then the sum in hexadecimal
GetChecksumRecv ==
    /\ gc.pc = "recv"
    /\ Recv("hashErr")
    /\ gc' = IF Head(chans["hashErr"]) # "nil"
             THEN [gc EXCEPT !.pc = "done",
                             !.err = "failed to calculate checksum"]
             ELSE [gc EXCEPT !.pc = "done",
                             !.checksum = EncodeToString(sha256Sum(gc.hash))]
    /\ UNCHANGED <<ctx, cfg, pipe, dumper, cmp, vc, restorer, mig, norm, run>>

(***************************************************************************)
(* The specification of one GetChecksum call.                              *)
(***************************************************************************)
InitChecksum ==
    /\ ctx = "live"
    /\ \E t \in DatabaseType, to \in Outputs :
         cfg = [dbType |-> t, targetOut |-> to]
    /\ pipe = [p \in AllPipes |-> IdlePipe]
    /\ dumper = [d \in AllPipes |-> [pc |-> "idle", err |-> "nil", rest |-> <<>>]]
    /\ cmp = IdleCmp
    /\ chans = [c \in AllChans |-> <<>>]
    /\ vc = IdleVc
    /\ restorer = IdleRestorer
    /\ mig = IdleMig
    /\ hist = IdleHist
    /\ norm = IdleNorm
    /\ gc = [IdleGc EXCEPT !.pc = "start"]
    /\ run = IdleRun

NextChecksum ==
    \/ CtxFire
    \/ GetChecksumStart
    \/ DumpWrite("checksum")
    \/ DumpWriteDone("checksum")
    \/ DumpReturnNil("checksum")
    \/ DumpFail("checksum")
    \/ HashRead
    \/ HashWrite
    \/ HashPost
    \/ GetChecksumDumpReturned
    \/ GetChecksumRecv

SpecChecksum == InitChecksum /\ [][NextChecksum]_vars

(***************************************************************************)
(* Properties of GetChecksum (specification SpecChecksum).                 *)
(***************************************************************************)
\* C21: the digest GetChecksum returns is the digest of exactly the bytes the
\* target's dump wrote, not normalized: every call over one stream returns
\* the same digest, and over an empty stream the digest of no bytes.
C21_DigestOfTargetBytes ==
    (gc.pc = "done" /\ gc.err = "nil") =>
        /\ gc.hash = cfg.targetOut
        /\ gc.checksum = EncodeToString(sha256Sum(cfg.targetOut))
        /\ cfg.targetOut = <<>> => gc.checksum = EncodeToString(sha256Sum(<<>>))

\* a digest returned for a stream written in more than one Write
C21_Witness ==
    /\ gc.pc = "done"
    /\ gc.err = "nil"
    /\ Len(cfg.targetOut) > MaxWrite
    /\ gc.checksum = EncodeToString(sha256Sum(cfg.targetOut))
    /\ Normalize(cfg.dbType, cfg.targetOut) # cfg.targetOut

(***************************************************************************)
(* NewDatabaseVerifier, and the VerifyContent call on the verifier it      *)
(* returns.  A dumper is its GetType(), or "nil"; opts holds the sizes of  *)
(* the WithChunkSize options.                                              *)
(***************************************************************************)
\* WithChunkSize without its test: every size replaces the chunk size
RECURSIVE ApplyOptionsUntested(_, _)
ApplyOptionsUntested(chunkSize, opts) ==
    IF opts = <<>> THEN chunkSize
    ELSE ApplyOptionsUntested(Head(opts), Tail(opts))

\* WithChunkSize: the sizes that are not positive leave the chunk size
RECURSIVE ApplyOptions(_, _)
ApplyOptions(chunkSize, opts) ==
    IF opts = <<>> THEN chunkSize
    ELSE ApplyOptions(IF Head(opts) > 0 THEN Head(opts) ELSE chunkSize,
                      Tail(opts))

\* the test of the two types left out
NewDatabaseVerifierNoTypeTest ==
    /\ vc.pc = "new"
    /\ IF cfg.sourceDumper = "nil" \/ cfg.targetDumper = "nil"
       THEN /\ vc' = [vc EXCEPT !.pc = "noVerifier",
                        !.result = "source and target dumpers must not be nil"]
            /\ UNCHANGED cfg
       ELSE /\ vc' = [vc EXCEPT !.pc = "verifier"]
            /\ cfg' = [cfg EXCEPT !.dbType = cfg.sourceDumper,
                         !.chunkSize = ApplyOptions(defaultChunkSize, cfg.opts)]
    /\ UNCHANGED <<ctx, pipe, dumper, cmp, chans, restorer, mig, hist, norm,
                   gc, run>>

NewDatabaseVerifier ==
    /\ vc.pc = "new"
    /\ IF cfg.sourceDumper = "nil" \/ cfg.targetDumper = "nil"
       THEN /\ vc' = [vc EXCEPT !.pc = "noVerifier",
                        !.result = "source and target dumpers must not be nil"]
            /\ UNCHANGED cfg
       ELSE IF cfg.sourceDumper # cfg.targetDumper
       THEN /\ vc' = [vc EXCEPT !.pc = "noVerifier",
                        !.result =
                          "source and target databases must be of the same type"]
            /\ UNCHANGED cfg
       ELSE /\ vc' = [vc EXCEPT !.pc = "verifier"]
            /\ cfg' = [cfg EXCEPT !.dbType = cfg.sourceDumper,
                         !.chunkSize = ApplyOptions(defaultChunkSize, cfg.opts)]
    /\ UNCHANGED <<ctx, pipe, dumper, cmp, chans, restorer, mig, hist, norm,
                   gc, run>>

(***************************************************************************)
(* runMigration, from its call of Migrate on.                              *)
(***************************************************************************)
TimedOut(op) ==
    IF op = "migration" THEN "migration timed out"
    ELSE "verification timed out"

Canceled(op) ==
    IF op = "migration" THEN "migration canceled by user"
    ELSE "verification canceled by user"

Failed(op) ==
    IF op = "migration" THEN "migration failed" ELSE "verification failed"

\* Migrate has returned
RunMigrateReturned ==
    /\ run.pc = "migrate"
    /\ mig.pc = "done"
    /\ run' = IF mig.result # "nil"
              THEN [run EXCEPT !.pc = "deadlineTest", !.op = "migration",
                               !.ctxAtReturn = ctx]
              ELSE [run EXCEPT !.pc = "skipTest"]
    /\ UNCHANGED <<ctx, cfg, pipe, dumper, cmp, chans, vc, restorer, mig,
                   hist, norm, gc>>

\* if errors.Is(ctx.Err(), context.DeadlineExceeded)
RunDeadlineTest ==
    /\ run.pc = "deadlineTest"
    /\ run' = IF ctxErr = "deadline"
              THEN [run EXCEPT !.pc = "done", !.err = TimedOut(run.op)]
              ELSE [run EXCEPT !.pc = "canceledTest"]
    /\ UNCHANGED <<ctx, cfg, pipe, dumper, cmp, chans, vc, restorer, mig,
                   hist, norm, gc>>

\* the test of the canceled context left out
RunCanceledTestMissing ==
    /\ run.pc = "canceledTest"
    /\ run' = [run EXCEPT !.pc = "done", !.err = Failed(run.op)]
    /\ UNCHANGED <<ctx, cfg, pipe, dumper, cmp, chans, vc, restorer, mig,
                   hist, norm, gc>>

\* if errors.Is(ctx.Err(), context.Canceled), and the return of the
\* operation's own error
RunCanceledTest ==
    /\ run.pc = "canceledTest"
    /\ run' = IF ctxErr = "canceled"
              THEN [run EXCEPT !.pc = "done", !.err = Canceled(run.op)]
              ELSE [run EXCEPT !.pc = "done", !.err = Failed(run.op)]
    /\ UNCHANGED <<ctx, cfg, pipe, dumper, cmp, chans, vc, restorer, mig,
                   hist, norm, gc>>

\* CreateDumper: the dumper of a supported type, or nil and an error
CreateDumper(dbType) ==
    IF Supported(dbType) THEN [dumper |-> dbType, err |-> "nil"]
    ELSE [dumper |-> "nil", err |-> "unsupported source database type"]

\* the flag --skip-verify not tested
RunSkipTestStdoutOnly ==
    /\ run.pc = "skipTest"
    /\ IF cfg.stdoutMode
       THEN /\ run' = [run EXCEPT !.pc = "done", !.err = "nil"]
            /\ UNCHANGED <<cfg, vc>>
       ELSE LET s == CreateDumper(cfg.sourceType)
                t == CreateDumper(cfg.targetType)
            IN  /\ cfg' = [cfg EXCEPT !.sourceDumper = s.dumper,
                                      !.targetDumper = t.dumper]
                /\ IF t.err # "nil"
                   THEN /\ run' = [run EXCEPT !.pc = "done",
                                      !.err = "failed to create dumper"]
                        /\ UNCHANGED vc
                   ELSE /\ run' = [run EXCEPT !.pc = "newVerifier"]
                        /\ vc' = [vc EXCEPT !.pc = "new"]
    /\ UNCHANGED <<ctx, pipe, dumper, cmp, chans, restorer, mig, hist, norm,
                   gc>>

\* "Skip verification if requested or in stdout mode"; else the two
\* CreateDumper calls, the error of the second tested, and the call of
\* NewDatabaseVerifier
RunSkipTest ==
    /\ run.pc = "skipTest"
    /\ IF cfg.skipVerification \/ cfg.stdoutMode
       THEN /\ run' = [run EXCEPT !.pc = "done", !.err = "nil"]
            /\ UNCHANGED <<cfg, vc>>
       ELSE LET s == CreateDumper(cfg.sourceType)
                t == CreateDumper(cfg.targetType)
            IN  /\ cfg' = [cfg EXCEPT !.sourceDumper = s.dumper,
                                      !.targetDumper = t.dumper]
                /\ IF t.err # "nil"
                   THEN /\ run' = [run EXCEPT !.pc = "done",
                                      !.err = "failed to create dumper"]
                        /\ UNCHANGED vc
                   ELSE /\ run' = [run EXCEPT !.pc = "newVerifier"]
                        /\ vc' = [vc EXCEPT !.pc = "new"]
    /\ UNCHANGED <<ctx, pipe, dumper, cmp, chans, restorer, mig, hist, norm,
                   gc>>

\* NewDatabaseVerifier has returned: its error is returned, or the
\* verification's own context is made and VerifyContent called
RunVerifierReturned ==
    /\ run.pc = "newVerifier"
    /\ \/ /\ vc.pc = "noVerifier"
          /\ run' = [run EXCEPT !.pc = "done",
                                !.err = "failed to create verifier"]
          /\ UNCHANGED <<ctx, vc>>
       \/ /\ vc.pc = "verifier"
          /\ ctx' = "live"
          /\ vc' = [vc EXCEPT !.pc = "start"]
          /\ run' = [run EXCEPT !.pc = "verify"]
    /\ UNCHANGED <<cfg, pipe, dumper, cmp, chans, restorer, mig, hist, norm,
                   gc>>

\* VerifyContent has returned: its error is reported, or GetChecksum called
RunVerifyReturned ==
    /\ run.pc = "verify"
    /\ vc.pc = "done"
    /\ IF vc.result # "nil"
       THEN /\ run' = [run EXCEPT !.pc = "deadlineTest",
                                  !.op = "verification", !.ctxAtReturn = ctx]
            /\ UNCHANGED gc
       ELSE /\ run' = [run EXCEPT !.pc = "checksum"]
            /\ gc' = [gc EXCEPT !.pc = "start"]
    /\ UNCHANGED <<ctx, cfg, pipe, dumper, cmp, chans, vc, restorer, mig,
                   hist, norm>>

\* GetChecksum has returned: its error or its digest is logged
RunChecksumReturned ==
    /\ run.pc = "checksum"
    /\ gc.pc = "done"
    /\ run' = [run EXCEPT !.pc = "done", !.err = "nil"]
    /\ UNCHANGED <<ctx, cfg, pipe, dumper, cmp, chans, vc, restorer, mig,
                   hist, norm, gc>>

Dumpers == DatabaseType \cup {"nil"}

Options == {<<>>, <<0>>, <<4>>, <<4, -1>>}

InitConstruct ==
    /\ ctx = "live"
    /\ \E s \in Dumpers, t \in Dumpers, o \in Options,
          so \in FairOutputs, to \in FairOutputs :
         cfg = [sourceDumper |-> s, targetDumper |-> t, opts |-> o,
                dbType |-> "none", chunkSize |-> 0,
                sourceOut |-> so, targetOut |-> to]
    /\ pipe = [p \in AllPipes |-> IdlePipe]
    /\ dumper = [d \in AllPipes |->
                   [pc |-> "idle", err |-> "nil",
                    rest |-> CASE d = "source" -> cfg.sourceOut
                               [] d = "target" -> cfg.targetOut
                               [] OTHER -> <<>>]]
    /\ cmp = IdleCmp
    /\ chans = [c \in AllChans |-> <<>>]
    /\ vc = [IdleVc EXCEPT !.pc = "new"]
    /\ restorer = IdleRestorer
    /\ mig = IdleMig
    /\ hist = IdleHist
    /\ norm = IdleNorm
    /\ gc = IdleGc
    /\ run = [IdleRun EXCEPT !.pc = "newVerifier"]

NextConstruct == NewDatabaseVerifier \/ RunVerifierReturned \/ Next

SpecConstruct == InitConstruct /\ [][NextConstruct]_vars

(***************************************************************************)
(* Properties of NewDatabaseVerifier (specification SpecConstruct).        *)
(***************************************************************************)
NoVerifyTask ==
    /\ \A d \in Sides : dumper[d].pc = "idle" /\ pipe[d] = IdlePipe
    /\ cmp.pc = "idle"
    /\ \A ch \in VerifyChans : hist.posts[ch] = <<>>

\* C22: with a producer that is nil, or two producers of different types,
\* NewDatabaseVerifier returns an error and no verifier, and no task of a
\* verification is ever started.
C22_NoVerifierNoTask ==
    (\/ cfg.sourceDumper = "nil"
     \/ cfg.targetDumper = "nil"
     \/ cfg.sourceDumper # cfg.targetDumper) =>
        /\ vc.pc \in {"new", "noVerifier"}
        /\ vc.pc = "noVerifier" =>
             vc.result \in
               {"source and target dumpers must not be nil",
                "source and target databases must be of the same type"}
        /\ NoVerifyTask

\* the error returned for two dumpers of different types
C22_Witness ==
    /\ vc.pc = "noVerifier"
    /\ cfg.sourceDumper \in DatabaseType
    /\ cfg.targetDumper \in DatabaseType
    /\ cfg.sourceDumper # cfg.targetDumper
    /\ vc.result = "source and target databases must be of the same type"

(***************************************************************************)
(* The specification of one runMigration, from its call of Migrate on.     *)
(***************************************************************************)
\* what inferDatabaseType returns
InferredTypes == {Postgres, MySQL}

\* the target's dump after the restore: the source's, or the source's with
\* another text in the line of its date
RunTargetOutputs == {OutA, OutB}

InitRun ==
    /\ ctx = "live"
    /\ \E t \in InferredTypes, o \in BOOLEAN, k \in BOOLEAN,
          n \in {4, defaultChunkSize}, to \in RunTargetOutputs :
         cfg = [sourceType |-> t, targetType |-> IF o THEN "" ELSE t,
                stdoutMode |-> o, skipVerification |-> k,
                sourceOut |-> OutA, targetOut |-> to,
                sourceDumper |-> "nil", targetDumper |-> "nil",
                opts |-> <<n>>, dbType |-> "none", chunkSize |-> 0]
    /\ pipe = [p \in AllPipes |-> IdlePipe]
    /\ dumper = [d \in AllPipes |->
                   [pc |-> "idle", err |-> "nil",
                    rest |-> CASE d \in {"migrate", "source"} -> cfg.sourceOut
                               [] d = "target" -> cfg.targetOut
                               [] OTHER -> <<>>]]
    /\ cmp = IdleCmp
    /\ chans = [c \in AllChans |-> <<>>]
    /\ vc = IdleVc
    /\ restorer = IdleRestorer
    /\ mig = [IdleMig EXCEPT !.pc = "start"]
    /\ hist = IdleHist
    /\ norm = IdleNorm
    /\ gc = IdleGc
    /\ run = [IdleRun EXCEPT !.pc = "migrate"]

NextRun ==
    \/ NextMigrate
    \/ RunMigrateReturned
    \/ RunDeadlineTest
    \/ RunCanceledTest
    \/ RunSkipTest
    \/ NewDatabaseVerifier
    \/ RunVerifierReturned
    \/ Next
    \/ RunVerifyReturned
    \/ NextChecksum
    \/ RunChecksumReturned

SpecRun == InitRun /\ [][NextRun]_vars

(***************************************************************************)
(* Properties of runMigration (specification SpecRun).                     *)
(***************************************************************************)
\* runMigration has returned the error of Migrate or of VerifyContent
RunReported == run.pc = "done" /\ run.op # "none"

\* C23: when Migrate or VerifyContent returns an error and the context of
\* the operation had fired by then, the message reported is the timeout one
\* after a deadline and the canceled-by-user one after a cancellation,
\* whatever the error returned; the generic failure message is reported only
\* when the context had not fired.
C23_CtxErrorReported ==
    RunReported =>
        /\ run.ctxAtReturn = "deadline" => run.err = TimedOut(run.op)
        /\ run.ctxAtReturn = "canceled" => run.err = Canceled(run.op)
        /\ run.err = Failed(run.op) => run.ctxAtReturn = "live"
        /\ run.err \in {TimedOut(run.op), Canceled(run.op), Failed(run.op)}

\* a dump failure of the verification reported as a timeout
C23_Witness ==
    /\ RunReported
    /\ run.op = "verification"
    /\ vc.result = "failed to dump source database"
    /\ run.ctxAtReturn = "deadline"
    /\ run.err = "verification timed out"

SourceChecksum == EncodeToString(sha256Sum(cfg.sourceOut))

TargetChecksum == EncodeToString(sha256Sum(cfg.targetOut))

\* C24: the verification calculates the checksums of the source and of the
\* target and compares them: a run whose verification has calculated a
\* checksum, over two databases of different checksums, returns a failure.
C24_ChecksumDifferenceFails ==
    (/\ run.pc = "done"
     /\ gc.pc = "done"
     /\ gc.err = "nil"
     /\ SourceChecksum # TargetChecksum) =>
        run.err # "nil"

\* C25: the phases run in order: a verification is started only after
\* Migrate has returned success, without --skip-verify and outside stdout
\* mode; a checksum is computed only after VerifyContent has returned
\* success.
C25_PhasesInOrder ==
    /\ (\/ vc.pc # "idle"
        \/ cmp.pc # "idle"
        \/ \E d \in Sides : dumper[d].pc # "idle") =>
           /\ mig.pc = "done"
           /\ mig.result = "nil"
           /\ ~cfg.skipVerification
           /\ ~cfg.stdoutMode
    /\ (gc.pc # "idle" \/ dumper["checksum"].pc # "idle") =>
           /\ vc.pc = "done"
           /\ vc.result = "nil"

\* a run through its three phases
C25_Witness ==
    /\ run.pc = "done"
    /\ run.err = "nil"
    /\ mig.pc = "done"
    /\ vc.pc = "done"
    /\ gc.pc = "done"
    /\ gc.checksum = TargetChecksum

(***************************************************************************)
(* Termination of VerifyContent and of the tasks (specification            *)
(* SpecEitherFair).                                                        *)
(***************************************************************************)
ProducerFailed == \E d \in Sides : dumper[d].err # "nil"

\* C26: while the context does not fire and no producer fails, a
\* VerifyContent call that has started its tasks returns, whatever the two
\* outputs, also when they are longer than a chunk and differ in an early
\* chunk.
C26_VerifyContentReturns ==
    (vc.pc = "wait") ~> (vc.pc = "done" \/ ctxDone \/ ProducerFailed)

TaskEnded(pc) == pc \in {"idle", "end"}

AllTasksEnded ==
    /\ \A p \in Pipes : TaskEnded(dumper[p].pc)
    /\ TaskEnded(cmp.pc)
    /\ TaskEnded(restorer.pc)

\* C27: no task leaks: once the context has fired, or Migrate or
\* VerifyContent has returned, every task that was started ends.
C27_NoTaskLeaks ==
    (ctxDone \/ mig.pc = "done" \/ vc.pc = "done") ~> AllTasksEnded

(***************************************************************************)
(* The iterations of compareReaders (specification SpecCompare).           *)
(***************************************************************************)
\* the bytes of a stream taken by the iterations before the current one
Before(d, chunk) == Consumed(d) - Len(chunk)

\* the number of the current iteration
Iteration == (Before("source", cmp.sourceChunk) \div cfg.chunkSize) + 1

\* C28: chunk N of the source and chunk N of the target are compared with
\* each other before any byte of chunk N+1 is read: in every iteration the
\* two buffers hold bytes of the chunks of one number, and a stream is read
\* no further than the end of that chunk.
C28_LockStep ==
    cmp.pc \in {"readSource", "readTarget", "compare"} =>
        LET n == cfg.chunkSize
            bs == Before("source", cmp.sourceChunk)
            bt == Before("target", cmp.targetChunk)
        IN  /\ bs = bt
            /\ bs = (Iteration - 1) * n
            /\ Len(cmp.sourceChunk) <= n
            /\ Len(cmp.targetChunk) <= n
            /\ cmp.sourceChunk =
                 SubSeq(cfg.source, bs + 1, bs + Len(cmp.sourceChunk))
            /\ cmp.targetChunk =
                 SubSeq(cfg.target, bt + 1, bt + Len(cmp.targetChunk))
            /\ cmp.pc = "readSource" => cmp.targetChunk = <<>>
            /\ (cmp.pc = "compare" /\ cfg.fault = "none") =>
                 /\ cmp.sourceChunk = Chunk(cfg.source, n, Iteration)
                 /\ cmp.targetChunk = Chunk(cfg.target, n, Iteration)

\* the second chunks of two streams at their comparison
C28_Witness ==
    /\ cmp.pc = "compare"
    /\ Iteration = 2
    /\ cmp.sourceChunk = Chunk(cfg.source, cfg.chunkSize, 2)
    /\ cmp.targetChunk = Chunk(cfg.target, cfg.chunkSize, 2)
    /\ cmp.sourceChunk # cmp.targetChunk
    /\ Chunk(cfg.source, cfg.chunkSize, 1) # cmp.sourceChunk

\* C29 as stated: once the context has fired, compareReaders reads no chunk
\* and returns no outcome other than the context's error.
C29_NoReadAfterCtx ==
    [][(ctxDone /\ cmp' # cmp) =>
          /\ cmp.pc \notin {"readSource", "readTarget"}
          /\ (cmp.pc # "post" /\ cmp'.pc = "post") => cmp'.err = ctxErr]_vars

\* C29, amended: compareReaders tests the context at the head of every
\* iteration: with the context fired there, it starts no iteration, reads
\* nothing and returns the context's error; an iteration started before the
\* context fired runs to its end.
C29_CtxTestedAtEachIteration ==
    [][(cmp.pc = "select" /\ cmp' # cmp) =>
          IF ctxDone
          THEN /\ cmp'.pc = "post"
               /\ cmp'.err = ctxErr
               /\ ~cmp'.equal
               /\ pipe' = pipe
          ELSE cmp'.pc = "readSource"]_vars

\* the context's error returned after an iteration, with bytes left unread
C29_Witness ==
    /\ cmp.pc = "post"
    /\ ctxDone
    /\ cmp.err = ctxErr
    /\ Consumed("source") >= cfg.chunkSize
    /\ pipe["source"].data # <<>>

\* C30: when the normalized chunks of an iteration are equal: with both
\* streams ended in it the outcome is Equal exactly when the two reads
\* returned as many bytes; with one stream ended the outcome is NotEqual;
\* and no iteration follows one in which a stream has ended.
C30_EndOfStream ==
    /\ (/\ Returned
        /\ cmp.err = "nil"
        /\ Normalize(cfg.dbType, cmp.sourceChunk) =
             Normalize(cfg.dbType, cmp.targetChunk)) =>
           /\ cmp.sourceErr = "EOF" \/ cmp.targetErr = "EOF"
           /\ (cmp.sourceErr = "EOF" /\ cmp.targetErr = "EOF") =>
                cmp.equal = (Len(cmp.sourceChunk) = Len(cmp.targetChunk))
           /\ (cmp.sourceErr = "EOF") # (cmp.targetErr = "EOF") => ~cmp.equal
    /\ cmp.pc \in {"select", "readSource"} =>
           cmp.sourceErr = "nil" /\ cmp.targetErr = "nil"

\* both streams ended in one iteration, with chunks that are equal once
\* normalized and differ in their length
C30_Witness ==
    /\ Returned
    /\ cmp.err = "nil"
    /\ cmp.sourceErr = "EOF"
    /\ cmp.targetErr = "EOF"
    /\ Normalize(cfg.dbType, cmp.sourceChunk) =
         Normalize(cfg.dbType, cmp.targetChunk)
    /\ Len(cmp.sourceChunk) # Len(cmp.targetChunk)
    /\ ~cmp.equal

(***************************************************************************)
(* The specification of one compareReaders call on streams whose lines     *)
(* begin with white space, or are noise lines that a chunk of 14 bytes     *)
(* cuts behind their marker.                                               *)
(***************************************************************************)
SpRow == <<" ", "r", "1">>
TabRow == <<"\t", "r", "1">>

\* a noise line of 15 bytes with the byte b at its place 14
CutNoiseLine(dbType, b) ==
    CASE dbType = Postgres -> PfxDumpedOn \o <<" ", b, "1">>
      [] dbType = MySQL -> PfxMySQLDump \o <<b, "1">>
      [] dbType = MongoDB ->
           SubDate \o <<" ", " ", " ", " ", " ", " ", b, "1">>

SplitLinesOf(dbType) ==
    {Row1, SpRow, TabRow, CutNoiseLine(dbType, "A"), CutNoiseLine(dbType, "B")}

SplitStreams(dbType) ==
    {<<>>}
    \cup {l \o <<LF>> : l \in SplitLinesOf(dbType)}
    \cup {l1 \o <<LF>> \o l2 \o <<LF>> :
            l1 \in SplitLinesOf(dbType), l2 \in SplitLinesOf(dbType)}

SplitChunkSizes == {4, 14}

InitCompareSplit ==
    /\ ctx = "live"
    /\ \E t \in DatabaseType, n \in SplitChunkSizes :
       \E s \in SplitStreams(t), g \in SplitStreams(t) :
         cfg = [dbType |-> t, chunkSize |-> n, source |-> s, target |-> g,
                fault |-> "none"]
    /\ pipe = [p \in AllPipes |->
                 IF p \in Sides
                 THEN [data |-> cfg[p], wclosed |-> TRUE, fault |-> FALSE]
                 ELSE IdlePipe]
    /\ dumper = [d \in AllPipes |-> [pc |-> "idle", err |-> "nil", rest |-> <<>>]]
    /\ cmp = [IdleCmp EXCEPT !.pc = "select"]
    /\ chans = [c \in AllChans |-> <<>>]
    /\ vc = IdleVc
    /\ restorer = IdleRestorer
    /\ mig = IdleMig
    /\ hist = IdleHist
    /\ norm = IdleNorm
    /\ gc = IdleGc
    /\ run = IdleRun

SpecCompareSplit == InitCompareSplit /\ [][NextCompare]_vars

(***************************************************************************)
(* Properties of the normalization inside compareReaders (specification    *)
(* SpecCompareSplit).                                                      *)
(***************************************************************************)
\* a line that is data: no noise line of the dialect and, for Postgres, no
\* blank line and no empty comment
IsDataLine(dbType, line) ==
    /\ ~IsNoise(dbType, line)
    /\ dbType = Postgres => TrimSpace(line) \notin {<<>>, EmptyComment}

\* the data of a stream: its data lines, for Postgres without their
\* trailing white space
DataOf(dbType, stream) ==
    LET IsData(line) == IsDataLine(dbType, line)
        kept == SelectSeq(Split(stream), IsData)
    IN  [i \in 1..Len(kept) |->
           IF dbType = Postgres THEN TrimRight(kept[i]) ELSE kept[i]]

\* C31: normalization neither transforms nor drops data: two streams whose
\* data differ never compare Equal, wherever the chunks end.
C31_DataDifferenceNotEqual ==
    ( /\ Returned
      /\ Undisturbed
      /\ DataOf(cfg.dbType, cfg.source) # DataOf(cfg.dbType, cfg.target) ) =>
        ~(cmp.equal /\ cmp.err = "nil")

\* the markers of the annotation comments: -- Name:, -- Type:, -- Schema:
AnnotationMarkers ==
    {<<"-", "-", " ", "N", "a", "m", "e", ":">>,
     <<"-", "-", " ", "T", "y", "p", "e", ":">>,
     <<"-", "-", " ", "S", "c", "h", "e", "m", "a", ":">>}

\* a line that begins with a marker of the dump header
BeginsWithMarker(line) ==
    \/ PostgresSkipLine(line)
    \/ \E m \in AnnotationMarkers : HasPrefix(line, m)

\* the chunk without the lines that begin with a marker and without the
\* blank and empty-comment lines, its other lines without their trailing
\* white space
MarkerLinesDropped(chunk) ==
    LET Retained(line) ==
            /\ ~BeginsWithMarker(line)
            /\ TrimSpace(line) \notin {<<>>, EmptyComment}
        kept == SelectSeq(Split(chunk), Retained)
    IN  Join([i \in 1..Len(kept) |-> TrimRight(kept[i])])

\* C32: the Postgres normalizer drops exactly the lines that begin with a
\* marker of the dump header (timestamp, versions, annotation comments) and
\* the blank and empty-comment lines, and removes from a line it retains
\* its trailing white space only.
C32_PostgresDropsMarkersOnly ==
    (cfg.dbType = Postgres /\ norm.pc \in {"once", "twice"}) =>
        norm.once = MarkerLinesDropped(norm.chunk)

\* the places where two streams of one length differ
DiffSet(a, b) == {i \in 1..Len(a) : a[i] # b[i]}

\* the first and the last byte of the line of s that holds the place i
LineStart(s, i) ==
    LET breaks == {j \in 1..(i - 1) : s[j] = LF}
    IN  IF breaks = {} THEN 1
        ELSE 1 + CHOOSE j \in breaks : \A k \in breaks : k <= j

LineEnd(s, i) ==
    LET breaks == {j \in i..Len(s) : s[j] = LF}
    IN  IF breaks = {} THEN Len(s)
        ELSE (CHOOSE j \in breaks : \A k \in breaks : j <= k) - 1

\* the line of s at the place i is cut by the end of a chunk of n bytes
Straddles(s, n, i) ==
    ChunkNo(n, LineStart(s, i)) # ChunkNo(n, LineEnd(s, i))

\* the place i lies in a noise line of s that is split across two reads
InStraddlingNoise(dbType, n, s, i) ==
    /\ s[i] # LF
    /\ IsNoise(dbType, LineOf(s, i))
    /\ Straddles(s, n, i)

\* two streams of one length and the same line breaks that differ only
\* inside noise lines split across two reads
DifferInStraddlingNoise(dbType, n, a, b) ==
    /\ Len(a) = Len(b)
    /\ DiffSet(a, b) # {}
    /\ \A i \in DiffSet(a, b) :
         /\ InStraddlingNoise(dbType, n, a, i)
         /\ InStraddlingNoise(dbType, n, b, i)

\* the part, within its chunk, of the line that holds the place i
PartOf(s, n, i) == LineOf(ChunkOf(s, n, i), i - (ChunkNo(n, i) - 1) * n)

\* at the place i the two parts read are both kept by the normalizer, with
\* different forms
PartRetained(dbType, n, a, b, i) ==
    /\ KeepLine(dbType, PartOf(a, n, i))
    /\ KeepLine(dbType, PartOf(b, n, i))
    /\ KeptForm(dbType, PartOf(a, n, i)) # KeptForm(dbType, PartOf(b, n, i))

DumpPosted == \E i \in DOMAIN hist.posts["errChan"] :
                 hist.posts["errChan"][i].who = "dump"

\* C35: in Migrate the producer's outcome is posted before the pipe's write
\* end is closed; hence when the producer failed and the consumer failed
\* after it observed the end of the stream, Migrate returns "dump failed",
\* never "restore failed".
C35_DumpFailureWins ==
    /\ pipe["migrate"].wclosed => DumpPosted
    /\ ( /\ mig.pc = "done"
         /\ MigrateStreamed
         /\ dumper["migrate"].err = "dumpErr"
         /\ restorer.eof
         /\ restorer.err = "restoreErr" ) =>
           mig.result = "dump failed"

\* both failures posted, the consumer's after the end of the stream, and
\* the producer's returned
C35_Witness ==
    /\ mig.pc = "done"
    /\ dumper["migrate"].err = "dumpErr"
    /\ restorer.eof
    /\ restorer.err = "restoreErr"
    /\ Len(hist.posts["errChan"]) = 2
    /\ hist.posts["errChan"][2] = [who |-> "restore", v |-> "restore failed"]
    /\ mig.result = "dump failed"


\* the channel ch has room for one more outcome
HasRoom(ch) == Len(chans[ch]) < Cap(ch)

\* C36: a task of Migrate or of VerifyContent that has reached the posting
\* of its outcome finds room for it on its result channel, whether or not
\* the caller is still receiving.
C36_PostNeverBlocks ==
    /\ dumper["migrate"].pc = "post" => HasRoom("errChan")
    /\ restorer.pc = "post" => HasRoom("errChan")
    /\ \A d \in Sides : dumper[d].pc = "post" => HasRoom(d)
    /\ cmp.pc = "post" => HasRoom("compare")

\* both tasks of Migrate have posted, and after VerifyContent returned a
\* producer has posted an outcome that stays on its channel
C36_Witness ==
    /\ mig.pc = "done"
    /\ Len(hist.posts["errChan"]) = 2
    /\ vc.pc = "done"
    /\ \E d \in Sides : dumper[d].pc = "end" /\ chans[d] # <<>>


(***************************************************************************)
(* GetChecksum with its goroutine and its own steps scheduled: a step of   *)
(* the caller or of the hashing goroutine that stays possible is taken.    *)
(* Nothing is assumed of the dump process.                                 *)
(***************************************************************************)
ChecksumFairness ==
    /\ WF_vars(GetChecksumDumpReturned)
    /\ WF_vars(HashRead)
    /\ WF_vars(HashWrite)
    /\ WF_vars(HashPost)
    /\ WF_vars(GetChecksumRecv)

SpecChecksumFair == SpecChecksum /\ ChecksumFairness

\* GetChecksum has read the digest
DigestRead == gc.checksum # <<>>

\* Dump has returned to GetChecksum
ChecksumDumpReturned == dumper["checksum"].pc \in {"post", "end"}

\* C37: the digest is read only after the write end is closed and the
\* hashing task has reported the end of the stream; when Dump fails
\* GetChecksum returns an error and no digest with the write end closed, and
\* the hashing task terminates; once Dump has returned GetChecksum returns.
C37_ChecksumOrdering ==
    /\ [](DigestRead =>
            /\ pipe["checksum"].wclosed
            /\ gc.copy = "end"
            /\ hist.posts["hashErr"] = <<[who |-> "copy", v |-> "nil"]>>
            /\ hist.recvs["hashErr"] = 1)
    /\ []((dumper["checksum"].pc = "end" /\ dumper["checksum"].err # "nil") =>
            /\ gc.pc = "done"
            /\ gc.err = "failed to dump database for checksum"
            /\ ~DigestRead
            /\ pipe["checksum"].wclosed)
    /\ (dumper["checksum"].err # "nil") ~> (gc.copy = "end")
    /\ ChecksumDumpReturned ~> (gc.pc = "done")

\* Dump failed after part of its output was hashed: GetChecksum returned
\* the error, and the hashing task posted its outcome, which nobody
\* receives, and ended
C37_Witness ==
    /\ gc.pc = "done"
    /\ gc.err = "failed to dump database for checksum"
    /\ gc.hash # <<>>
    /\ ~DigestRead
    /\ pipe["checksum"].wclosed
    /\ gc.copy = "end"
    /\ chans["hashErr"] = <<"nil">>


\* NewDatabaseVerifier has returned a verifier
VerifierReturned == vc.pc \notin {"new", "noVerifier"}

\* the last size above zero among the options, the default when none is
ExpectedChunkSize(opts) ==
    LET positive == {i \in DOMAIN opts : opts[i] > 0}
    IN  IF positive = {} THEN defaultChunkSize
        ELSE opts[CHOOSE i \in positive : \A j \in positive : j <= i]

\* C38: the chunk size of a verifier returned by NewDatabaseVerifier is
\* above zero for every sequence of options: it is the last size above zero
\* given by WithChunkSize, and the default of 10 MiB when there is none;
\* hence each read of an iteration of compareReaders takes at least one byte
\* or ends on the end of its stream or on a read failure.
C38_ChunkSizePositive ==
    /\ VerifierReturned =>
         /\ cfg.chunkSize > 0
         /\ cfg.chunkSize = ExpectedChunkSize(cfg.opts)
         /\ defaultChunkSize = 10485760
    /\ cmp.pc \in {"readTarget", "compare"} =>
         (cmp.sourceChunk # <<>> \/ cmp.sourceErr \in {"EOF", "readErr"})
    /\ cmp.pc = "compare" =>
         (cmp.targetChunk # <<>> \/ cmp.targetErr \in {"EOF", "readErr"})

\* a size of -1 given after a size of 4 left the 4, and an iteration of
\* compareReaders has read four bytes of each stream
C38_Witness ==
    /\ VerifierReturned
    /\ cfg.opts = <<4, -1>>
    /\ cfg.chunkSize = 4
    /\ cmp.pc = "compare"
    /\ Len(cmp.sourceChunk) = 4
    /\ Len(cmp.targetChunk) = 4

=============================================================================
